---- MODULE Spec2Model ----
(***************************************************************************)
(* Hand-gesture mouse controller: the click-vs-hold dispatcher             *)
(* (cursor_controller.py), the gesture classifier (hand_tracker.py), the   *)
(* per-frame orchestrator and its threads (gui_controller.py) and the      *)
(* settings optimizer (adaptive_game.py).                                  *)
(*                                                                         *)
(* Times are integers in milliseconds.  time.time() is the variable now,   *)
(* which every operation advances before it reads it.                      *)
(***************************************************************************)
EXTENDS Integers, Sequences, FiniteSets, TLC

VARIABLES
    now,                \* the wall clock read by time.time(), in ms
    is_holding,         \* CursorController.is_holding
    hold_start_time,    \* CursorController.hold_start_time (0 = unset)
    last_click_time,    \* CursorController.last_click_time
    last_scroll_time,   \* CursorController.last_scroll_time
    button_down,        \* the pointer sink: is the left button pressed
    sink_faulty,        \* may pyautogui calls raise in this run
    fired,              \* sink calls that succeeded in the last operation
    sink_errors,        \* sink calls that raised in the last operation
    uncaught,           \* did an exception leave the last operation
    req,                \* the last operation requested of the controller
    prev_hold,          \* HoldState before the last operation
    ep_start,           \* time of the first active observation of the pinch
    ep_last_active,     \* time of its latest active observation
    ep_downs,           \* mouseDown calls issued since ep_start
    seen_left,          \* time of the last successful pyautogui.click
    seen_right,         \* time of the last successful pyautogui.rightClick
    seen_double,        \* time of the last successful pyautogui.doubleClick
    cursor_finger,      \* HandTracker.cursor_finger
    pinch_history,      \* HandTracker.pinch_history
    gesture,            \* the label detect_gestures gave the last frame
    mapped,             \* did the last frame call map_coordinates/move_cursor
    fault,              \* the recoverable condition the last frame met
    absent,             \* consecutive frames without a hand, up to GraceFrames
    read_fails,         \* consecutive reads of the camera that failed
    raises_allowed,     \* may the tracking code raise in this run
    phase,              \* the pose a scripted frame sequence is at
    point_thumb,        \* that sequence's point pose: thumb "in" or "out"
    labels,             \* its labels, consecutive repeats collapsed
    sent,               \* its sink calls so far, counted by kind
    is_running,         \* GUIController.is_running
    start_enabled,      \* is the Start button enabled (Stop is when not)
    gui_pc,             \* where the GUI thread is inside stop_tracking
    stops,              \* calls of stop_tracking that have returned
    wpc,                \* each worker thread's place in process_video
    wbranch,            \* the branch of handle_pinch_gesture it is in
    best_settings,      \* AdaptiveSettingsOptimizer.best_settings
    best_score,         \* AdaptiveSettingsOptimizer.best_score, in tenths
    search_queue,       \* AdaptiveSettingsOptimizer.search_queue
    visited_settings,   \* AdaptiveSettingsOptimizer.visited_settings
    adaptive,           \* CursorController.adaptive_* and smoothing_factor
    calls,              \* bfs_optimize calls made on this optimizer
    returned,           \* what its latest call returned (the candidate)
    adjusted,           \* the adjusted score of its latest call, in tenths
    enq_log,            \* the keys it appended to search_queue, in order
    score_in,           \* the current_score of its latest call made directly
    feedback_in,        \* the label that call gave interpret_feedback
    weight,             \* what interpret_feedback returned for it, in tenths
    nb_in,              \* the settings generate_neighbors was last given
    nb_out,             \* the neighbours it returned for them
    last_lm,            \* the landmarks the tracker was last called on
    finger_before,      \* cursor_finger when that call began
    pinch_reported,     \* what detect_pinch_gesture returned in that call
    raw_log,            \* the raw booleans pushed since construction/reset
    prev_pos,           \* CursorController.prev_x, prev_y (1/100 pixel)
    velocity,           \* CursorController.velocity_x, velocity_y
    position_history,   \* CursorController.position_history
    cursor_enabled,     \* CursorController.cursor_enabled
    inverse_cursor,     \* CursorController.inverse_cursor
    out,                \* what map_coordinates last returned, in pixels
    moves,              \* calls of map_coordinates so far
    set_in,             \* the arguments of the last set_adaptive_settings
    smoothing_var       \* GUIController.smoothing_var, the slider's value

dispVars  == <<is_holding, hold_start_time, last_click_time, last_scroll_time>>
sinkVars == <<button_down>>
ghostVars == <<fired, sink_errors, uncaught, req, prev_hold, ep_start, ep_last_active, ep_downs,
               seen_left, seen_right, seen_double>>
trackVars == <<cursor_finger, pinch_history>>
frameVars == <<gesture, mapped, fault, absent, read_fails>>
scriptVars == <<phase, point_thumb, labels, sent>>
loopVars == <<sink_faulty, raises_allowed, trackVars, frameVars>>
threadVars == <<is_running, start_enabled, gui_pc, stops, wpc, wbranch>>
callVars == <<score_in, feedback_in, weight, nb_in, nb_out>>
optVars == <<best_settings, best_score, search_queue, visited_settings,
             adaptive, calls, returned, adjusted, enq_log, callVars>>
probeVars == <<last_lm, finger_before, pinch_reported, raw_log>>
motionVars == <<prev_pos, velocity, position_history, cursor_enabled,
                inverse_cursor>>
motionGhost == <<out, moves>>
settingVars == <<set_in, smoothing_var>>
extraVars == <<probeVars, motionVars, motionGhost, settingVars>>
otherVars == <<loopVars, scriptVars, threadVars, optVars, extraVars>>
vars == <<now, dispVars, sinkVars, ghostVars, otherVars>>

(***************************************************************************)
(* Bounds of the model and constants of the program.                       *)
(***************************************************************************)
Tick == 50
StartTime == 1000
MaxTicks == 9
MaxTime == StartTime + MaxTicks * Tick
DtChoices == {Tick, 2 * Tick, 7 * Tick}

click_cooldown == 150
hold_threshold == 300
scroll_cooldown == 100

(***************************************************************************)
(* The pointer sink.  A call either succeeds or raises; it may raise only  *)
(* in runs where sink_faulty holds.                                        *)
(***************************************************************************)
SinkOutcomes == IF sink_faulty THEN BOOLEAN ELSE {TRUE}

\* The HoldState of section 4.3 as the controller's two fields encode it.
HoldState(holding, start) ==
    IF holding THEN "Holding"
    ELSE IF start # 0 THEN "PendingHold" ELSE "Idle"

(***************************************************************************)
(* The controller's dispatcher fields as one record c, so that the calls   *)
(* one frame makes compose.  c.ev collects the sink calls that succeeded,  *)
(* c.err those that raised inside a try block, and c.exc tells whether an  *)
(* exception has left the call.                                            *)
(***************************************************************************)
Ctrl ==
    [holding |-> is_holding, start |-> hold_start_time,
     click |-> last_click_time, scroll |-> last_scroll_time, ev |-> <<>>,
     err |-> <<>>, exc |-> FALSE]

\* A hold test with its operands swapped.
HoldElapsedSwapped(c, current_time) ==
    c.start - current_time > hold_threshold

\* handle_pinch_gesture's test for starting a hold (drag).
HoldElapsed(c, current_time) ==
    current_time - c.start > hold_threshold

\* A quick-click test whose cooldown comparison points the wrong way.
QuickClickDueInverted(c, current_time) ==
    /\ current_time - c.start < hold_threshold
    /\ current_time - c.click < click_cooldown

\* A quick-click test that ignores the click cooldown.
QuickClickDueNoCooldown(c, current_time) ==
    current_time - c.start < hold_threshold

\* handle_pinch_gesture's test for a quick click on release.
QuickClickDue(c, current_time) ==
    /\ current_time - c.start < hold_threshold
    /\ current_time - c.click > click_cooldown

(***************************************************************************)
(* CursorController.handle_pinch_gesture.  ok is the outcome of the one    *)
(* sink call the branch taken makes.                                       *)
(***************************************************************************)
handle_pinch_gesture(c, is_pinch_active, current_time, ok) ==
    IF is_pinch_active THEN
        IF ~c.holding THEN
            IF c.start = 0 THEN
                [c EXCEPT !.start = current_time]
            ELSE IF HoldElapsed(c, current_time) THEN
                IF ok THEN [c EXCEPT !.holding = TRUE,
                                     !.ev = Append(@, "mouseDown")]
                ELSE [c EXCEPT !.err = Append(@, "mouseDown")]
            ELSE c
        ELSE c
    ELSE
        IF c.holding THEN
            IF ok THEN [c EXCEPT !.holding = FALSE, !.start = 0,
                                 !.ev = Append(@, "mouseUp")]
            ELSE [c EXCEPT !.start = 0, !.err = Append(@, "mouseUp")]
        ELSE IF c.start > 0 THEN
            IF QuickClickDue(c, current_time)
            THEN IF ok THEN [c EXCEPT !.start = 0, !.click = current_time,
                                      !.ev = Append(@, "click")]
                 ELSE [c EXCEPT !.start = 0, !.err = Append(@, "click")]
            ELSE [c EXCEPT !.start = 0]
        ELSE [c EXCEPT !.start = 0]

(***************************************************************************)
(* CursorController.click, right_click and double_click.  All three read   *)
(* and write the one field last_click_time.                                *)
(***************************************************************************)
\* A click whose sink call stands outside any try block.
click_unguarded(c, current_time, ok) ==
    IF current_time - c.click > click_cooldown
    THEN IF ok
         THEN [c EXCEPT !.click = current_time, !.ev = Append(@, "click")]
         ELSE [c EXCEPT !.exc = TRUE]
    ELSE c

\* click: the sink call and the timestamp stand in one try block.
click(c, current_time, ok) ==
    IF current_time - c.click > click_cooldown
    THEN IF ok
         THEN [c EXCEPT !.click = current_time, !.ev = Append(@, "click")]
         ELSE [c EXCEPT !.err = Append(@, "click")]
    ELSE c

right_click(c, current_time, ok) ==
    IF current_time - c.click > click_cooldown
    THEN IF ok
         THEN [c EXCEPT !.click = current_time, !.ev = Append(@, "rightClick")]
         ELSE [c EXCEPT !.err = Append(@, "rightClick")]
    ELSE c

double_click(c, current_time, ok) ==
    IF current_time - c.click > click_cooldown
    THEN IF ok
         THEN [c EXCEPT !.click = current_time, !.ev = Append(@, "doubleClick")]
         ELSE [c EXCEPT !.err = Append(@, "doubleClick")]
    ELSE c

\* CursorController.key_press and key_combination: one sink call in a try
\* block, no cooldown.
key_press(c, key, ok) ==
    IF ok THEN [c EXCEPT !.ev = Append(@, "press")]
    ELSE [c EXCEPT !.err = Append(@, "press")]

key_combination(c, keys, ok) ==
    IF ok THEN [c EXCEPT !.ev = Append(@, "hotkey")]
    ELSE [c EXCEPT !.err = Append(@, "hotkey")]

\* A scroll gated by the click timestamp.
scroll_gated_by_click(c, direction, current_time, ok) ==
    IF current_time - c.click > scroll_cooldown /\ ok
    THEN [c EXCEPT !.scroll = current_time, !.ev = Append(@, "scroll")]
    ELSE c

\* CursorController.scroll: gated by last_scroll_time alone.
scroll(c, direction, current_time, ok) ==
    IF current_time - c.scroll > scroll_cooldown
    THEN IF direction \notin {"up", "down"}
         THEN [c EXCEPT !.scroll = current_time]
         ELSE IF ok
         THEN [c EXCEPT !.scroll = current_time, !.ev = Append(@, "scroll")]
         ELSE [c EXCEPT !.err = Append(@, "scroll")]
    ELSE c

(***************************************************************************)
(* CursorController.reset_state, the dispatcher fields: mouseUp if holding *)
(* (a failure is swallowed), then the fields are cleared whatever the sink *)
(* did.                                                                    *)
(***************************************************************************)
reset_state_keeps_holding(c, ok) ==
    [c EXCEPT !.start = 0,
              !.ev = IF c.holding /\ ok THEN Append(@, "mouseUp") ELSE @]

reset_state(c, ok) ==
    [c EXCEPT !.holding = FALSE, !.start = 0,
              !.ev = IF c.holding /\ ok THEN Append(@, "mouseUp") ELSE @,
              !.err = IF c.holding /\ ~ok THEN Append(@, "mouseUp") ELSE @]

\* The effect of a list of successful sink calls on the button.
RECURSIVE ButtonAfter(_, _)
ButtonAfter(down, evs) ==
    IF evs = <<>> THEN down
    ELSE ButtonAfter(IF Head(evs) = "mouseDown" THEN TRUE
                     ELSE IF Head(evs) = "mouseUp" THEN FALSE
                     ELSE down, Tail(evs))

Count(evs, e) == Cardinality({i \in 1..Len(evs) : evs[i] = e})

\* The last-fired time of one kind of click, after the calls in evs at time t.
Seen(old, evs, e, t) == IF Count(evs, e) > 0 THEN t ELSE old

\* Bookkeeping of the pinch the dispatcher is following, for one call of
\* handle_pinch_gesture on c that issued the sink calls evs.
EpisodeAfter(c, ep, is_pinch_active, t, evs) ==
    IF is_pinch_active /\ HoldState(c.holding, c.start) = "Idle"
    THEN [start |-> t, last |-> t, downs |-> 0]
    ELSE IF is_pinch_active
    THEN [ep EXCEPT !.last = t, !.downs = @ + Count(evs, "mouseDown")]
    ELSE ep

Episode == [start |-> ep_start, last |-> ep_last_active, downs |-> ep_downs]

\* The controller fields, the button and the books after the calls that
\* led from Ctrl to c at time t.
Commit(c, t) ==
    /\ is_holding' = c.holding
    /\ hold_start_time' = c.start
    /\ last_click_time' = c.click
    /\ last_scroll_time' = c.scroll
    /\ button_down' = ButtonAfter(button_down, c.ev)
    /\ fired' = c.ev
    /\ sink_errors' = c.err
    /\ uncaught' = c.exc
    /\ seen_left' = Seen(seen_left, c.ev, "click", t)
    /\ seen_right' = Seen(seen_right, c.ev, "rightClick", t)
    /\ seen_double' = Seen(seen_double, c.ev, "doubleClick", t)
    /\ prev_hold' = HoldState(is_holding, hold_start_time)

CommitEpisode(e) ==
    /\ ep_start' = e.start
    /\ ep_last_active' = e.last
    /\ ep_downs' = e.downs

(***************************************************************************)
(* The controller's operations, each called at a time of its own.          *)
(***************************************************************************)
HandlePinch ==
    \E dt \in DtChoices, b \in BOOLEAN, ok \in SinkOutcomes :
        /\ now + dt <= MaxTime
        /\ now' = now + dt
        /\ LET c == handle_pinch_gesture(Ctrl, b, now + dt, ok)
           IN /\ Commit(c, now + dt)
              /\ CommitEpisode(EpisodeAfter(Ctrl, Episode, b, now + dt, c.ev))
        /\ req' = IF b THEN "pinch_on" ELSE "pinch_off"
        /\ UNCHANGED otherVars

\* A click request of one of the three kinds, as a caller of the controller
\* (GestureManager.execute_gesture_action) makes it.
ClickKinds == {"click", "right_click", "double_click"}

ClickRequest ==
    \E dt \in DtChoices, k \in ClickKinds, ok \in SinkOutcomes :
        /\ now + dt <= MaxTime
        /\ now' = now + dt
        /\ Commit(IF k = "click" THEN click(Ctrl, now + dt, ok)
                  ELSE IF k = "right_click" THEN right_click(Ctrl, now + dt, ok)
                  ELSE double_click(Ctrl, now + dt, ok), now + dt)
        /\ req' = k
        /\ UNCHANGED <<ep_start, ep_last_active, ep_downs>>
        /\ UNCHANGED otherVars

ScrollRequest ==
    \E dt \in DtChoices, d \in {"up", "down"}, ok \in SinkOutcomes :
        /\ now + dt <= MaxTime
        /\ now' = now + dt
        /\ Commit(scroll(Ctrl, d, now + dt, ok), now + dt)
        /\ req' = "scroll"
        /\ UNCHANGED <<ep_start, ep_last_active, ep_downs>>
        /\ UNCHANGED otherVars

\* A key press or a key combination requested of the controller, with
\* the key and the keys GestureManager.execute_gesture_action defaults to.
KeyRequest ==
    \E dt \in DtChoices, combo \in BOOLEAN, ok \in SinkOutcomes :
        /\ now + dt <= MaxTime
        /\ now' = now + dt
        /\ \E key \in {"space"}, keys \in {<<"ctrl", "c">>} :
              Commit(IF combo THEN key_combination(Ctrl, keys, ok)
                     ELSE key_press(Ctrl, key, ok), now + dt)
        /\ req' = IF combo THEN "key_combination" ELSE "key_press"
        /\ UNCHANGED <<ep_start, ep_last_active, ep_downs>>
        /\ UNCHANGED otherVars

(***************************************************************************)
(* CursorController.map_coordinates.  Positions and velocities are pairs   *)
(* <<x, y>> of integers in hundredths of a pixel, a normalised coordinate  *)
(* is in thousandths, and so are the adaptive settings.  m is the record   *)
(* of the fields the function reads and writes.                            *)
(***************************************************************************)
screen_width == 1920
screen_height == 1080
MaxMoves == 3

Min(a, b) == IF a <= b THEN a ELSE b
Max(a, b) == IF a >= b THEN a ELSE b

Motion ==
    [prev |-> prev_pos, vel |-> velocity, hist |-> position_history,
     enabled |-> cursor_enabled, inverse |-> inverse_cursor,
     sensitivity |-> adaptive.sensitivity,
     acceleration |-> adaptive.acceleration]

\* np.clip((hand - margin) / effective, 0, 1), in thousandths.
Normalise(hand, frame) ==
    Max(0, Min(1000, ((hand - 40) * 1000) \div (frame - 2 * 40)))

\* deque(maxlen = jitter_filter_size).append
PushPosition(hist, p) ==
    LET a == Append(hist, p)
    IN IF Len(a) > 3 THEN Tail(a) ELSE a

\* The weighted mean of apply_jitter_filter on one coordinate i of the
\* history: weights linspace(0.3, 1.0, n) / sum.
Filtered(hist, i) ==
    IF Len(hist) < 2 THEN hist[Len(hist)][i]
    ELSE IF Len(hist) = 2
    THEN (3 * hist[1][i] + 10 * hist[2][i]) \div 13
    ELSE (6 * hist[1][i] + 13 * hist[2][i] + 20 * hist[3][i]) \div 39

\* apply_jitter_filter: the history after the call and the filtered point.
apply_jitter_filter(hist, p) ==
    LET h == PushPosition(hist, p)
    IN [hist |-> h, p |-> <<Filtered(h, 1), Filtered(h, 2)>>]

\* int() of a coordinate in hundredths: truncation toward zero.
ToInt(v) == IF v >= 0 THEN v \div 100 ELSE -((-v) \div 100)

\* max(0, min(limit - 1, v)) on hundredths of a pixel.
Clamp(v, limit) == Max(0, Min((limit - 1) * 100, v))

\* map_coordinates: the fields after the call (m) and the pair returned.
map_coordinates(m, hand_x, hand_y, frame_width, frame_height) ==
    IF ~m.enabled
    THEN [m |-> m, ret |-> <<ToInt(m.prev[1]), ToInt(m.prev[2])>>]
    ELSE
    LET n_x == Normalise(hand_x, frame_width)
        n_y == Normalise(hand_y, frame_height)
        norm_x == IF m.inverse THEN 1000 - n_x ELSE n_x
        norm_y == IF m.inverse THEN 1000 - n_y ELSE n_y
        target_x == (((norm_x * screen_width) \div 10) * m.sensitivity)
                        \div 1000
        target_y == (((norm_y * screen_height) \div 10) * m.sensitivity)
                        \div 1000
        f == apply_jitter_filter(m.hist, <<target_x, target_y>>)
    IN
    IF m.prev = <<0, 0>>
    THEN [m |-> [m EXCEPT !.hist = f.hist, !.prev = f.p],
          ret |-> <<ToInt(f.p[1]), ToInt(f.p[2])>>]
    ELSE
    LET velocity_x == f.p[1] - m.prev[1]
        velocity_y == f.p[2] - m.prev[2]
        sv_x == (m.vel[1] * 15 + velocity_x * 85) \div 100
        sv_y == (m.vel[2] * 15 + velocity_y * 85) \div 100
        fast == \/ sv_x > 1500 \/ sv_x < -1500
                \/ sv_y > 1500 \/ sv_y < -1500
                \/ sv_x * sv_x + sv_y * sv_y > 1500 * 1500
        smooth_x == IF fast THEN (sv_x * (m.acceleration \div 10)) \div 100
                    ELSE sv_x
        smooth_y == IF fast THEN (sv_y * (m.acceleration \div 10)) \div 100
                    ELSE sv_y
        final_x == Clamp(m.prev[1] + smooth_x, screen_width)
        final_y == Clamp(m.prev[2] + smooth_y, screen_height)
    IN [m |-> [m EXCEPT !.hist = f.hist, !.vel = <<smooth_x, smooth_y>>,
                        !.prev = <<final_x, final_y>>],
        ret |-> <<ToInt(final_x), ToInt(final_y)>>]

CommitMotion(m) ==
    /\ prev_pos' = m.prev
    /\ velocity' = m.vel
    /\ position_history' = m.hist
    /\ UNCHANGED <<cursor_enabled, inverse_cursor>>

\* reset_state's assignments to the motion fields.
ResetMotion ==
    /\ position_history' = <<>>
    /\ velocity' = <<0, 0>>
    /\ prev_pos' = <<0, 0>>
    /\ UNCHANGED <<cursor_enabled, inverse_cursor>>

\* The frame size and the tracked points map_coordinates is called with.
frame_width == 640
frame_height == 480
HandPoints == {<<20, 30>>, <<320, 240>>, <<640, 480>>}

\* map_coordinates called on its own.
MapCoordinates ==
    \E p \in HandPoints :
        /\ moves < MaxMoves
        /\ \E r \in {map_coordinates(Motion, p[1], p[2],
                                     frame_width, frame_height)} :
              /\ CommitMotion(r.m)
              /\ out' = r.ret
        /\ moves' = moves + 1
        /\ req' = "map_coordinates"
        /\ UNCHANGED <<now, dispVars, sinkVars, fired, sink_errors, uncaught, prev_hold, ep_start,
                       ep_last_active, ep_downs, seen_left, seen_right,
                       seen_double, loopVars, scriptVars, threadVars, optVars,
                       probeVars, settingVars>>

\* CursorController.set_cursor_inversion, from the GUI's checkbox.
SetCursorInversion ==
    \E invert \in BOOLEAN :
        /\ invert # inverse_cursor
        /\ inverse_cursor' = invert
        /\ req' = "set_cursor_inversion"
        /\ UNCHANGED <<now, dispVars, sinkVars, fired, sink_errors, uncaught, prev_hold, ep_start,
                       ep_last_active, ep_downs, seen_left, seen_right,
                       seen_double, loopVars, scriptVars, threadVars, optVars,
                       probeVars, settingVars, motionGhost, prev_pos,
                       velocity, position_history, cursor_enabled>>

\* CursorController.toggle_cursor_movement.
ToggleCursorMovement ==
    /\ cursor_enabled' = ~cursor_enabled
    /\ req' = "toggle_cursor_movement"
    /\ UNCHANGED <<now, dispVars, sinkVars, fired, sink_errors, uncaught, prev_hold, ep_start,
                   ep_last_active, ep_downs, seen_left, seen_right,
                   seen_double, loopVars, scriptVars, threadVars, optVars,
                   probeVars, settingVars, motionGhost, prev_pos,
                   velocity, position_history, inverse_cursor>>

movement_threshold == 3

\* A move_cursor that never looks at the toggle.
move_cursor_always(c, enabled, x, y, current, ok) ==
    IF ok /\ (x - current[1]) * (x - current[1])
               + (y - current[2]) * (y - current[2])
             > movement_threshold * movement_threshold
    THEN [c EXCEPT !.ev = Append(@, "moveTo")]
    ELSE c

\* CursorController.move_cursor: current is what pyautogui.position()
\* returns, ok the outcome of the sink calls in the try block.
move_cursor(c, enabled, x, y, current, ok) ==
    IF ~enabled THEN c
    ELSE IF ~ok THEN [c EXCEPT !.err = Append(@, "moveTo")]
    ELSE IF (x - current[1]) * (x - current[1])
              + (y - current[2]) * (y - current[2])
            > movement_threshold * movement_threshold
    THEN [c EXCEPT !.ev = Append(@, "moveTo")]
    ELSE c

\* move_cursor called with what map_coordinates last returned.
MoveCursor ==
    \E current \in {<<0, 0>>, <<960, 540>>, <<962, 541>>},
       ok \in SinkOutcomes :
        /\ Commit(move_cursor(Ctrl, cursor_enabled, out[1], out[2],
                              current, ok), now)
        /\ req' = "move_cursor"
        /\ UNCHANGED <<now, ep_start, ep_last_active, ep_downs, otherVars>>

\* reset_state called on its own.
ResetState ==
    \E dt \in DtChoices, ok \in SinkOutcomes :
        /\ now + dt <= MaxTime
        /\ now' = now + dt
        /\ Commit(reset_state(Ctrl, ok), now + dt)
        /\ req' = "reset"
        /\ CommitEpisode([start |-> 0, last |-> 0, downs |-> 0])
        /\ ResetMotion
        /\ UNCHANGED <<loopVars, scriptVars, threadVars, optVars, probeVars,
                       motionGhost, settingVars>>

(***************************************************************************)
(* Landmarks.  A landmark is <<id, x, y>> in frame pixels, as              *)
(* HandTracker.get_landmarks builds it (Python's landmarks[i][1] is x and  *)
(* landmarks[i][2] is y); a frame's landmarks are a function on            *)
(* 0..n-1.  A hand is drawn upright with the wrist at the bottom: finger   *)
(* k has its MCP at y = 200 and its PIP at y = 160, and its tip above the  *)
(* PIP when extended and below it when folded.                             *)
(***************************************************************************)
X(l) == l[2]
Y(l) == l[3]
NumLandmarks(lm) == Cardinality(DOMAIN lm)

FingerColumn(k) == 60 + 20 * k          \* k = 1 index .. 4 pinky
TipY(up) == IF up THEN 100 ELSE 190
DipY(up) == IF up THEN 130 ELSE 175

ThumbPoses == {"in", "out", "pinch"}

\* The thumb tip: folded in, stretched out, or on the index tip.
ThumbTip(thumb, indexUp) ==
    IF thumb = "in" THEN <<90, 260>>
    ELSE IF thumb = "out" THEN <<40, 220>>
    ELSE <<FingerColumn(1) + 10, TipY(indexUp) + 10>>

Hand(thumb, up) ==
    [id \in 0..20 |->
        IF id = 0 THEN <<0, 100, 300>>
        ELSE IF id = 1 THEN <<1, 80, 280>>
        ELSE IF id = 2 THEN <<2, 70, 260>>
        ELSE IF id = 3 THEN <<3, 60, 250>>
        ELSE IF id = 4 THEN <<4, ThumbTip(thumb, up[1])[1],
                                 ThumbTip(thumb, up[1])[2]>>
        ELSE LET k == (id - 1) \div 4
                 j == (id - 1) % 4
             IN <<id, FingerColumn(k),
                  IF j = 0 THEN 200
                  ELSE IF j = 1 THEN 160
                  ELSE IF j = 2 THEN DipY(up[k])
                  ELSE TipY(up[k])>>]

FingerPoses == [1..4 -> BOOLEAN]
NoHand == [id \in {} |-> <<>>]
\* A detection cut short: the first ten landmarks of a hand.
Partial == [id \in 0..9 |-> Hand("out", [k \in 1..4 |-> TRUE])[id]]
Hands == {Hand(t, up) : t \in ThumbPoses, up \in FingerPoses}
Frames == Hands \cup {NoHand, Partial}

(***************************************************************************)
(* HandTracker.                                                            *)
(***************************************************************************)
pinch_stability_count == 3
pinch_threshold == 40
tip_ids == <<4, 8, 12, 16, 20>>
pip_ids == <<3, 6, 10, 14, 18>>

Tracker == [finger |-> cursor_finger, hist |-> pinch_history]

Dist2(p, q) == (X(p) - X(q)) * (X(p) - X(q)) + (Y(p) - Y(q)) * (Y(p) - Y(q))

\* is_finger_up: finger_idx 0 is the thumb (tip farther from the wrist than
\* the IP joint), 1..4 the fingers (tip above the PIP joint).
is_finger_up(lm, finger_idx) ==
    IF finger_idx = 0 THEN
        IF NumLandmarks(lm) <= 4 THEN FALSE
        ELSE Dist2(lm[4], lm[0]) > Dist2(lm[3], lm[0])
    ELSE
        IF finger_idx >= Len(tip_ids) \/ finger_idx >= Len(pip_ids) THEN FALSE
        ELSE LET tip_id == tip_ids[finger_idx + 1]
                 pip_id == pip_ids[finger_idx + 1]
             IN IF tip_id >= NumLandmarks(lm) \/ pip_id >= NumLandmarks(lm)
                THEN FALSE
                ELSE Y(lm[tip_id]) < Y(lm[pip_id])

\* sum(self.pinch_history)
RECURSIVE Trues(_)
Trues(h) == IF h = <<>> THEN 0 ELSE (IF Head(h) THEN 1 ELSE 0) + Trues(Tail(h))

\* A window that keeps growing: the oldest entry is never evicted.
PushHistoryNoEvict(h, raw) == Append(h, raw)

\* A full window that turns the newest value away.
PushHistoryDropsNewest(h, raw) ==
    IF Len(h) >= pinch_stability_count THEN h ELSE Append(h, raw)

\* pinch_history.append(raw), then pop(0) when over pinch_stability_count.
PushHistory(h, raw) ==
    LET a == Append(h, raw)
    IN IF Len(a) > pinch_stability_count THEN Tail(a) ELSE a

\* A stability test that does not ask for a full window.
StablePinchAnyLength(h) == Trues(h) >= pinch_stability_count - 1

\* stable_pinch
StablePinch(h) ==
    /\ Len(h) >= pinch_stability_count
    /\ Trues(h) >= pinch_stability_count - 1

\* detect_pinch_gesture: the tracker after the call and what it returns.
detect_pinch_gesture(tr, lm) ==
    IF NumLandmarks(lm) < 21 THEN [tr |-> tr, pinch |-> FALSE]
    ELSE LET raw == Dist2(lm[4], lm[8]) < pinch_threshold * pinch_threshold
             h == PushHistory(tr.hist, raw)
         IN [tr |-> [tr EXCEPT !.hist = h], pinch |-> StablePinch(h)]

\* is_pinch_active: a second call of detect_pinch_gesture on the same frame.
is_pinch_active(tr, lm) == detect_pinch_gesture(tr, lm)

\* A point test that always looks at the index finger.
PointFingerIndexOnly(finger) == 1

\* detect_gestures' cursor_finger_idx: the finger "point" is tested on.
PointFinger(finger) == IF finger = "index" THEN 1 ELSE 4

\* A setter that switches nothing.
set_cursor_finger_ignored(tr, finger_type) == tr

\* set_cursor_finger: the tracker after the call.
set_cursor_finger(tr, finger_type) ==
    IF finger_type \in {"index", "pinky"}
    THEN [tr EXCEPT !.finger = finger_type]
    ELSE tr

\* detect_gestures: the tracker after the call and the label.
detect_gestures(tr, lm) ==
    IF NumLandmarks(lm) < 21 THEN [tr |-> tr, label |-> "no_hand"]
    ELSE
    LET fingers_up == [i \in 0..4 |-> is_finger_up(lm, i)]
        total_fingers == Cardinality({i \in 0..4 : fingers_up[i]})
        p == detect_pinch_gesture(tr, lm)
        cursor_finger_idx == PointFinger(p.tr.finger)
        other_fingers == {i \in 1..4 : i # cursor_finger_idx}
    IN
    IF p.pinch
    THEN [tr |-> IF p.tr.finger # "pinky"
                 THEN set_cursor_finger(p.tr, "pinky") ELSE p.tr,
          label |-> "pinch"]
    ELSE IF /\ fingers_up[cursor_finger_idx]
            /\ ~(\E i \in other_fingers : fingers_up[i])
    THEN [tr |-> IF p.tr.finger # "index"
                 THEN set_cursor_finger(p.tr, "index") ELSE p.tr,
          label |-> "point"]
    ELSE IF fingers_up[1] /\ fingers_up[2] /\ ~fingers_up[3] /\ ~fingers_up[4]
    THEN [tr |-> p.tr, label |-> "peace"]
    ELSE IF total_fingers <= 1 THEN [tr |-> p.tr, label |-> "fist"]
    ELSE IF total_fingers >= 4 THEN [tr |-> p.tr, label |-> "open_hand"]
    ELSE [tr |-> p.tr, label |-> "other"]

\* get_cursor_finger_position, as process_video uses it:
\* cursor_pos['valid'] and cursor_pos['stability'] > 0.4.  With
\* stability = (min(length / 80, 1) + (1.0 if extended else 0.3)) / 2 and
\* valid = length > 20 and stability > 0.4, in squared lengths.
CursorUsable(tr, lm) ==
    IF NumLandmarks(lm) < 21 THEN FALSE
    ELSE LET tip == lm[IF tr.finger = "index" THEN 8 ELSE 20]
             pip == lm[IF tr.finger = "index" THEN 6 ELSE 18]
             mcp == lm[IF tr.finger = "index" THEN 5 ELSE 17]
             len2 == Dist2(tip, mcp)
         IN /\ len2 > 20 * 20
            /\ (Y(tip) < Y(pip) \/ len2 > 40 * 40)

(***************************************************************************)
(* The tracker called on its own, one frame per call.  last_lm,            *)
(* finger_before, pinch_reported and raw_log keep what a call was given    *)
(* and what it computed on the way.                                        *)
(***************************************************************************)
MaxRaw == 4

\* pinch_distance < self.pinch_threshold on a frame of 21 landmarks.
RawPinch(lm) == Dist2(lm[4], lm[8]) < pinch_threshold * pinch_threshold

RawLogAfter(lm) ==
    IF NumLandmarks(lm) < 21 THEN raw_log ELSE Append(raw_log, RawPinch(lm))

TrackerIdle ==
    UNCHANGED <<now, dispVars, sinkVars, fired, sink_errors, uncaught, prev_hold, ep_start,
                ep_last_active, ep_downs, seen_left, seen_right, seen_double,
                sink_faulty, raises_allowed, mapped, fault, absent,
                read_fails, scriptVars, threadVars, optVars, motionVars, motionGhost,
                settingVars>>

\* HandTracker.detect_gestures on one frame.
DetectGestures ==
    \E lm \in Frames :
        /\ Len(raw_log) < MaxRaw
        /\ \E r \in {detect_gestures(Tracker, lm)} :
              /\ cursor_finger' = r.tr.finger
              /\ pinch_history' = r.tr.hist
              /\ gesture' = r.label
        /\ pinch_reported' = detect_pinch_gesture(Tracker, lm).pinch
        /\ raw_log' = RawLogAfter(lm)
        /\ last_lm' = lm
        /\ finger_before' = cursor_finger
        /\ req' = "detect_gestures"
        /\ TrackerIdle

\* HandTracker.detect_pinch_gesture (or is_pinch_active) on one frame.
DetectPinch ==
    \E lm \in Frames :
        /\ Len(raw_log) < MaxRaw
        /\ \E r \in {detect_pinch_gesture(Tracker, lm)} :
              /\ cursor_finger' = r.tr.finger
              /\ pinch_history' = r.tr.hist
              /\ pinch_reported' = r.pinch
        /\ raw_log' = RawLogAfter(lm)
        /\ last_lm' = lm
        /\ finger_before' = cursor_finger
        /\ req' = "detect_pinch_gesture"
        /\ UNCHANGED gesture
        /\ TrackerIdle

\* HandTracker.reset_tracking_state.
ResetTrackingState ==
    /\ raw_log # <<>>
    /\ pinch_history' = <<>>
    /\ cursor_finger' = "index"
    /\ raw_log' = <<>>
    /\ req' = "reset_tracking_state"
    /\ UNCHANGED <<gesture, last_lm, finger_before, pinch_reported>>
    /\ TrackerIdle

InitProbe ==
    /\ last_lm = NoHand
    /\ finger_before = "index"
    /\ pinch_reported = FALSE
    /\ raw_log = <<>>

\* get_cursor_finger_position's x and y: the tip of the cursor finger.
CursorTip(tr, lm) == lm[IF tr.finger = "index" THEN 8 ELSE 20]

(***************************************************************************)
(* GUIController.process_video, one iteration of the loop on a frame that  *)
(* was read.  s = [c, ep, tr] is the controller, the pinch books and the   *)
(* tracker as the iteration goes.                                          *)
(***************************************************************************)
\* One call of handle_pinch_gesture within an iteration.
PinchCall(s, b, t, ok) ==
    LET c == handle_pinch_gesture(s.c, b, t, ok)
        evs == SubSeq(c.ev, Len(s.c.ev) + 1, Len(c.ev))
    IN [s EXCEPT !.c = c, !.ep = EpisodeAfter(s.c, s.ep, b, t, evs)]

\* The "Handle gestures" branches for a frame of at least 21 landmarks.
Dispatch(s, label, lm, t, ok1, ok2) ==
    IF label = "pinch" THEN
        LET a == is_pinch_active(s.tr, lm)
        IN PinchCall([s EXCEPT !.tr = a.tr], a.pinch, t, ok1)
    ELSE
        LET r == PinchCall(s, FALSE, t, ok1)
        IN IF label = "fist" THEN [r EXCEPT !.c = click(r.c, t, ok2)]
           ELSE IF label = "peace" THEN [r EXCEPT !.c = right_click(r.c, t, ok2)]
           ELSE IF label = "open_hand"
           THEN [r EXCEPT !.c = scroll(r.c, "up", t, ok2)]
           ELSE r

\* The try/except of process_video on landmarks lm at time t: raise tells
\* where the try block raises (nowhere, before the landmarks are returned,
\* or in the overlay update that ends the branch taken); g is what
\* detect_gestures returns for them.
Iteration(s, lm, g, raise, t, ok1, ok2, ok3) ==
    LET body ==
            IF raise = "landmarks" THEN s
            ELSE IF NumLandmarks(lm) >= 21
            THEN Dispatch([s EXCEPT !.tr = g.tr], g.label, lm, t, ok1, ok2)
            ELSE PinchCall(s, FALSE, t, ok1)
    IN IF raise = "none" THEN body ELSE PinchCall(body, FALSE, t, ok3)

\* The label the iteration worked with.
IterationLabel(lm, g, raise) ==
    IF raise = "landmarks" THEN "none"
    ELSE IF NumLandmarks(lm) >= 21 THEN g.label
    ELSE "no_hand"

\* A test that maps whenever the cursor finger's tip is among the landmarks.
IterationMapsAnyTip(lm, g, raise) ==
    /\ raise # "landmarks"
    /\ NumLandmarks(lm) > (IF g.tr.finger = "index" THEN 8 ELSE 20)

\* Whether the iteration called map_coordinates and move_cursor.
IterationMaps(lm, g, raise) ==
    /\ raise # "landmarks"
    /\ NumLandmarks(lm) >= 21
    /\ CursorUsable(g.tr, lm)

LoopDt == {Tick, 3 * Tick, 7 * Tick}
LoopTicks == 6
LoopEnd == StartTime + LoopTicks * Tick

\* The number of consecutive frames without a hand that absent counts up
\* to: the hand has then been away for longer than any shorter grace.
GraceFrames == 3

\* The run of frames without a hand, after a frame that met fault f.
AbsentAfter(f) ==
    IF f = "no_hand" THEN Min(absent + 1, GraceFrames)
    ELSE IF f = "exception" THEN absent
    ELSE 0

\* The user moves the smoothing slider.
MoveSmoothingSlider ==
    \E v \in {600, 900} :
        /\ v # smoothing_var
        /\ smoothing_var' = v
        /\ UNCHANGED <<now, dispVars, sinkVars, ghostVars, loopVars,
                       scriptVars, threadVars, optVars, probeVars, motionVars,
                       motionGhost, set_in>>

\* The poses the loop is fed: no hand, a cut-short detection, and hands
\* that point with the index (thumb folded or out), pinch with the index
\* up, make a fist, a peace sign, an open hand, and point with the pinky.
Fingers(i, m, r, p) == <<i, m, r, p>>
LoopFrames ==
    {NoHand, Partial,
     Hand("in", Fingers(TRUE, FALSE, FALSE, FALSE)),
     Hand("out", Fingers(TRUE, FALSE, FALSE, FALSE)),
     Hand("pinch", Fingers(TRUE, FALSE, FALSE, FALSE)),
     Hand("in", Fingers(FALSE, FALSE, FALSE, FALSE)),
     Hand("in", Fingers(TRUE, TRUE, FALSE, FALSE)),
     Hand("out", Fingers(TRUE, TRUE, TRUE, TRUE)),
     Hand("in", Fingers(FALSE, FALSE, FALSE, TRUE))}

\* One iteration on a frame drawn from frames.
ProcessFrameFrom(frames, deadline) ==
    \E dt \in LoopDt, lm \in frames, raise \in {"none", "landmarks", "overlay"},
       ok1 \in SinkOutcomes, ok2 \in SinkOutcomes, ok3 \in SinkOutcomes :
        /\ now + dt <= deadline
        /\ raise # "none" => raises_allowed
        /\ now' = now + dt
        /\ \E g \in {detect_gestures(Tracker, lm)} :
           \E s \in {Iteration([c |-> Ctrl, ep |-> Episode, tr |-> Tracker],
                               lm, g, raise, now + dt, ok1, ok2, ok3)} :
              /\ Commit(s.c, now + dt)
              /\ CommitEpisode(s.ep)
              /\ cursor_finger' = s.tr.finger
              /\ pinch_history' = s.tr.hist
              /\ gesture' = IterationLabel(lm, g, raise)
              /\ mapped' = IterationMaps(lm, g, raise)
        /\ fault' = IF raise # "none" THEN "exception"
                    ELSE IF NumLandmarks(lm) < 21 THEN "no_hand"
                    ELSE "none"
        /\ absent' = AbsentAfter(IF raise # "none" THEN "exception"
                                 ELSE IF NumLandmarks(lm) < 21 THEN "no_hand"
                                 ELSE "none")
        /\ read_fails' = 0
        /\ req' = "frame"
        /\ adaptive' = [adaptive EXCEPT !.smoothing_factor = smoothing_var]
        /\ \E g \in {detect_gestures(Tracker, lm)} :
              IF IterationMaps(lm, g, raise)
              THEN \E r \in {map_coordinates(Motion,
                                             X(CursorTip(g.tr, lm)),
                                             Y(CursorTip(g.tr, lm)),
                                             frame_width, frame_height)} :
                      /\ CommitMotion(r.m)
                      /\ out' = r.ret
              ELSE UNCHANGED <<motionVars, out>>
        /\ UNCHANGED <<sink_faulty, raises_allowed, threadVars,
                       best_settings, best_score, search_queue,
                       visited_settings, calls, returned, adjusted, enq_log,
                       callVars, probeVars, moves, settingVars>>

ProcessFrame ==
    /\ ProcessFrameFrom(LoopFrames, LoopEnd)
    /\ UNCHANGED scriptVars

\* A failed read handled as a frame without a hand.
FrameReadFailsAsNoHand ==
    \E dt \in LoopDt :
        /\ now + dt <= LoopEnd
        /\ now' = now + dt
        /\ req' = "read_failed"
        /\ read_fails' = read_fails + 1
        /\ LET c == handle_pinch_gesture(Ctrl, FALSE, now + dt, TRUE)
           IN Commit(c, now + dt)
        /\ UNCHANGED <<ep_start, ep_last_active, ep_downs, sink_faulty,
                       raises_allowed, trackVars, gesture, mapped, fault,
                       absent, scriptVars, threadVars, optVars, extraVars>>

\* get_frame returned (False, None): sleep and poll again.
FrameReadFails ==
    \E dt \in LoopDt :
        /\ now + dt <= LoopEnd
        /\ now' = now + dt
        /\ req' = "read_failed"
        /\ read_fails' = read_fails + 1
        /\ UNCHANGED <<dispVars, sinkVars, fired, sink_errors, uncaught, prev_hold, ep_start,
                       ep_last_active, ep_downs, seen_left, seen_right,
                       seen_double, sink_faulty, raises_allowed, trackVars,
                       gesture, mapped, fault, absent, scriptVars,
                       threadVars, optVars, extraVars>>

(***************************************************************************)
(* A scripted frame sequence: no hand, an index-finger point, a            *)
(* thumb-index pinch, the same index-finger point again.  The pinch pose   *)
(* is kept until a frame has been labelled pinch; the script is over when  *)
(* the last pose has been fed for as long as the debounce window is.       *)
(***************************************************************************)
ScriptTail == 4
ScriptTicks == 14
ScriptEnd == 2 + ScriptTail

\* phase 0, 1, 2: the first three poses; phase 3 and up: the frames of the
\* last pose, counted.
ScriptPose(ph) ==
    IF ph = 0 THEN NoHand
    ELSE IF ph = 2 THEN Hand("pinch", Fingers(TRUE, FALSE, FALSE, FALSE))
    ELSE Hand(point_thumb, Fingers(TRUE, FALSE, FALSE, FALSE))

Collapse(ls, l) == IF ls # <<>> /\ ls[Len(ls)] = l THEN ls ELSE Append(ls, l)

SinkKinds == {"click", "rightClick", "doubleClick", "scroll",
              "mouseDown", "mouseUp"}

ScriptFrame ==
    \E ph \in {phase, phase + 1} :
        /\ phase >= 0
        /\ ph <= ScriptEnd
        /\ phase >= 3 => ph = phase + 1
        /\ ph = 1 => labels # <<>>
        /\ ph = 3 => gesture = "pinch"
        /\ phase' = ph
        /\ ProcessFrameFrom({ScriptPose(ph)}, StartTime + ScriptTicks * Tick)
        /\ labels' = Collapse(labels, gesture')
        /\ sent' = [k \in SinkKinds |-> sent[k] + Count(fired', k)]
        /\ UNCHANGED point_thumb

ScriptOver == phase = ScriptEnd

(***************************************************************************)
(* The threads.  start_tracking and stop_tracking run on the GUI thread,   *)
(* one handler at a time; each start_tracking creates a worker thread that *)
(* runs process_video.  A worker's call of handle_pinch_gesture is taken   *)
(* in steps, so that the GUI thread's writes may fall between its test,    *)
(* its sink call and its writes.                                           *)
(***************************************************************************)
MaxWorkers == 2
Workers == 1..MaxWorkers

\* The threads whose process_video is inside the while loop's body.
InLoop == {w \in Workers : wpc[w] \in {"body", "sink", "write", "clear"}}
Unborn == {w \in Workers : wpc[w] = "unborn"}

\* The branch handle_pinch_gesture takes on c, by the sink call it makes.
PinchBranch(c, active, current_time) ==
    IF active THEN
        IF ~c.holding THEN
            IF c.start = 0 THEN "start"
            ELSE IF HoldElapsed(c, current_time) THEN "mouseDown"
            ELSE "none"
        ELSE "none"
    ELSE
        IF c.holding THEN "mouseUp"
        ELSE IF c.start > 0 /\ QuickClickDue(c, current_time) THEN "click"
        ELSE "release"

\* start_tracking, the camera having connected: is_running is set and a
\* new thread is started.  It never waits for an earlier thread.
StartTracking ==
    /\ gui_pc = "idle"
    /\ start_enabled
    /\ Unborn # {}
    /\ is_running' = TRUE
    /\ start_enabled' = FALSE
    /\ \E w \in Unborn :
          /\ \A v \in Unborn : w <= v
          /\ wpc' = [wpc EXCEPT ![w] = "loop"]
    /\ UNCHANGED <<now, dispVars, sinkVars, ghostVars, loopVars, scriptVars, optVars, extraVars,
                   gui_pc, stops, wbranch>>

\* stop_tracking up to its call of reset_state, from the Stop button or
\* from on_camera_type_change and on_closing while is_running.
StopTracking ==
    /\ gui_pc = "idle"
    /\ ~start_enabled \/ is_running
    /\ is_running' = FALSE
    /\ start_enabled' = TRUE
    /\ gui_pc' = "reset"
    /\ UNCHANGED <<now, dispVars, sinkVars, ghostVars, loopVars, scriptVars, optVars, extraVars,
                   stops, wpc, wbranch>>

\* reset_state's test of is_holding and its mouseUp.
ResetRelease ==
    /\ gui_pc = "reset"
    /\ \E ok \in SinkOutcomes :
          button_down' = (IF is_holding /\ ok THEN FALSE ELSE button_down)
    /\ gui_pc' = "clear"
    /\ UNCHANGED <<now, dispVars, ghostVars, loopVars, scriptVars, optVars, extraVars,
                   is_running, start_enabled, stops, wpc, wbranch>>

\* reset_state's assignments, and the rest of stop_tracking.
ResetClear ==
    /\ gui_pc = "clear"
    /\ is_holding' = FALSE
    /\ hold_start_time' = 0
    /\ gui_pc' = "idle"
    /\ stops' = stops + 1
    /\ ResetMotion
    /\ UNCHANGED <<now, last_click_time, last_scroll_time, sinkVars, ghostVars,
                   loopVars, scriptVars, optVars, probeVars, motionGhost,
                   settingVars, is_running, start_enabled, wpc, wbranch>>

\* A loop test that never sees the stop.
WorkerTestIgnoresStop(w) ==
    /\ wpc[w] = "loop"
    /\ wpc' = [wpc EXCEPT ![w] = "body"]
    /\ UNCHANGED <<now, dispVars, sinkVars, ghostVars, loopVars, scriptVars, optVars, extraVars,
                   is_running, start_enabled, gui_pc, stops, wbranch>>

\* while self.is_running
WorkerTest(w) ==
    /\ wpc[w] = "loop"
    /\ wpc' = [wpc EXCEPT ![w] = IF is_running THEN "body" ELSE "exited"]
    /\ UNCHANGED <<now, dispVars, sinkVars, ghostVars, loopVars, scriptVars, optVars, extraVars,
                   is_running, start_enabled, gui_pc, stops, wbranch>>

ThreadDt == {Tick, 7 * Tick}

\* The iteration up to handle_pinch_gesture's tests, the time read being
\* t: the branch is chosen; the "start" branch has no more to do.
WorkerEnterAt(w, t) ==
    /\ wpc[w] = "body"
    /\ now' = t
    /\ \E b \in BOOLEAN :
          \E br \in {PinchBranch(Ctrl, b, t)} :
                /\ wbranch' = [wbranch EXCEPT ![w] = br]
                /\ hold_start_time' =
                       (IF br = "start" THEN t ELSE hold_start_time)
                /\ wpc' = [wpc EXCEPT ![w] =
                              IF br \in {"start", "none"} THEN "loop"
                              ELSE IF br = "release" THEN "clear"
                              ELSE "sink"]
    /\ UNCHANGED <<is_holding, last_click_time, last_scroll_time, sinkVars,
                   ghostVars, loopVars, scriptVars, optVars, extraVars, is_running, start_enabled,
                   gui_pc, stops>>

\* An iteration that reads a time up to MaxTime.
WorkerEnter(w) ==
    \E dt \in ThreadDt :
        /\ now + dt <= MaxTime
        /\ WorkerEnterAt(w, now + dt)

\* The ticks the clock is followed for when an iteration may start
\* whatever the clock reads.
ExitTicks == 1

\* The branch's sink call: pyautogui.mouseDown, mouseUp or click.
WorkerSink(w) ==
    /\ wpc[w] = "sink"
    /\ \E ok \in SinkOutcomes :
          /\ button_down' = (IF ok THEN ButtonAfter(button_down, <<wbranch[w]>>)
                             ELSE button_down)
          /\ wpc' = [wpc EXCEPT ![w] =
                        IF ok THEN "write"
                        ELSE IF wbranch[w] = "mouseDown" THEN "loop"
                        ELSE "clear"]
    /\ UNCHANGED <<now, dispVars, ghostVars, loopVars, scriptVars, optVars, extraVars, is_running,
                   start_enabled, gui_pc, stops, wbranch>>

\* The assignment after the sink call: is_holding or last_click_time.
WorkerWrite(w) ==
    /\ wpc[w] = "write"
    /\ is_holding' = (IF wbranch[w] = "mouseDown" THEN TRUE
                      ELSE IF wbranch[w] = "mouseUp" THEN FALSE
                      ELSE is_holding)
    /\ last_click_time' = (IF wbranch[w] = "click" THEN now
                           ELSE last_click_time)
    /\ wpc' = [wpc EXCEPT ![w] =
                  IF wbranch[w] = "mouseDown" THEN "loop" ELSE "clear"]
    /\ UNCHANGED <<now, hold_start_time, last_scroll_time, sinkVars, ghostVars,
                   loopVars, scriptVars, optVars, extraVars, is_running, start_enabled, gui_pc,
                   stops, wbranch>>

\* self.hold_start_time = 0, which ends the inactive branch.
WorkerClear(w) ==
    /\ wpc[w] = "clear"
    /\ hold_start_time' = 0
    /\ wpc' = [wpc EXCEPT ![w] = "loop"]
    /\ UNCHANGED <<now, is_holding, last_click_time, last_scroll_time,
                   sinkVars, ghostVars, loopVars, scriptVars, optVars, extraVars, is_running,
                   start_enabled, gui_pc, stops, wbranch>>

WorkerStep ==
    \E w \in Workers :
        \/ WorkerTest(w)
        \/ WorkerEnter(w)
        \/ WorkerSink(w)
        \/ WorkerWrite(w)
        \/ WorkerClear(w)

\* The next step of worker w's process_video, at any time: a time past
\* the ticks the clock is followed for is read as the last of them, so
\* that a loop that keeps running keeps taking steps.
WorkerRun(w) ==
    \/ WorkerTest(w)
    \/ \E dt \in ThreadDt :
          WorkerEnterAt(w, Min(now + dt, StartTime + ExitTicks * Tick))
    \/ WorkerSink(w)
    \/ WorkerWrite(w)
    \/ WorkerClear(w)

(***************************************************************************)
(* The settings optimizer (AdaptiveSettingsOptimizer) and the training     *)
(* game's feedback handler.  A setting is an integer number of             *)
(* thousandths, a settings key a triple of hundredths, a feedback weight   *)
(* and an adjusted score an integer number of tenths.                      *)
(***************************************************************************)
MaxCalls == 8

InitialSettings ==
    [sensitivity |-> 1000, smoothing |-> 300, acceleration |-> 1500]

step_size(param) ==
    CASE param = "sensitivity" -> 100
      [] param = "smoothing" -> 50
      [] param = "acceleration" -> 100

get_min_value(param) ==
    CASE param = "sensitivity" -> 300
      [] param = "smoothing" -> 100
      [] param = "acceleration" -> 1000
      [] OTHER -> 100

get_max_value(param) ==
    CASE param = "sensitivity" -> 2000
      [] param = "smoothing" -> 800
      [] param = "acceleration" -> 3000
      [] OTHER -> 2000

\* round(x, 2): thousandths to the nearest hundredth.
Round2(x) == (x + 5) \div 10

settings_to_key(settings) ==
    <<Round2(settings.sensitivity), Round2(settings.smoothing),
      Round2(settings.acceleration)>>

\* Neighbours one step away whatever the bounds are.
generate_neighbors_unclamped(settings) ==
    LET Up(param) == [settings EXCEPT ![param] = @ + step_size(param)]
        Down(param) == [settings EXCEPT ![param] = @ - step_size(param)]
    IN <<Up("sensitivity"), Down("sensitivity"),
         Up("smoothing"), Down("smoothing"),
         Up("acceleration"), Down("acceleration")>>

\* The six neighbours, in the order the loop appends them.
generate_neighbors(settings) ==
    LET Up(param) == [settings EXCEPT ![param] =
                          Min(@ + step_size(param), get_max_value(param))]
        Down(param) == [settings EXCEPT ![param] =
                            Max(@ - step_size(param), get_min_value(param))]
    IN <<Up("sensitivity"), Down("sensitivity"),
         Up("smoothing"), Down("smoothing"),
         Up("acceleration"), Down("acceleration")>>

Feedback == {"much_faster", "faster", "perfect", "slower", "much_slower",
             "sharper", "smoother"}

\* A table in which a label it does not hold weighs nothing.
interpret_feedback_strict(feedback) ==
    CASE feedback = "much_faster" -> 15
      [] feedback = "faster" -> 12
      [] feedback = "perfect" -> 20
      [] feedback = "slower" -> 8
      [] feedback = "much_slower" -> 6
      [] feedback = "sharper" -> 13
      [] feedback = "smoother" -> 11
      [] OTHER -> 0

\* feedback_map.get(feedback, 1.0), in tenths.
interpret_feedback(feedback) ==
    CASE feedback = "much_faster" -> 15
      [] feedback = "faster" -> 12
      [] feedback = "perfect" -> 20
      [] feedback = "slower" -> 8
      [] feedback = "much_slower" -> 6
      [] feedback = "sharper" -> 13
      [] feedback = "smoother" -> 11
      [] OTHER -> 10

\* A neighbour is appended whatever the visited set holds.
NotVisitedIgnored(visited, setting_key) == TRUE

\* setting_key not in self.visited_settings
NotVisited(visited, setting_key) == setting_key \notin visited

\* The loop over the neighbours from the i-th on: o is the queue, the
\* visited set and the keys appended so far.
RECURSIVE EnqueueNeighbors(_, _, _, _)
EnqueueNeighbors(neighbors, i, current_score, o) ==
    IF i > Len(neighbors) THEN o
    ELSE LET setting_key == settings_to_key(neighbors[i])
         IN EnqueueNeighbors(neighbors, i + 1, current_score,
                IF NotVisited(o.visited, setting_key)
                THEN [queue |-> Append(o.queue,
                                       [settings |-> neighbors[i],
                                        score |-> current_score]),
                      visited |-> o.visited \cup {setting_key},
                      log |-> Append(o.log, setting_key)]
                ELSE o)

\* The optimizer's fields as a record.
Optimizer ==
    [best_settings |-> best_settings, best_score |-> best_score,
     queue |-> search_queue, visited |-> visited_settings]

\* A frontier popped at its newest end.
get_next_settings_newest(o) ==
    IF o.queue # <<>>
    THEN [queue |-> SubSeq(o.queue, 1, Len(o.queue) - 1),
          ret |-> o.queue[Len(o.queue)].settings]
    ELSE [queue |-> o.queue, ret |-> o.best_settings]

\* get_next_settings on optimizer o: the queue it leaves and what it returns.
get_next_settings(o) ==
    IF o.queue # <<>>
    THEN [queue |-> Tail(o.queue), ret |-> Head(o.queue).settings]
    ELSE [queue |-> o.queue, ret |-> o.best_settings]

\* bfs_optimize on optimizer o: the optimizer it leaves (o), what it
\* returns (ret), the keys it appended (log) and the adjusted score.
bfs_optimize(o, current_score, user_feedback) ==
    LET current_settings == o.best_settings
        e == EnqueueNeighbors(generate_neighbors(current_settings), 1,
                              current_score,
                              [queue |-> o.queue, visited |-> o.visited,
                               log |-> <<>>])
        adjusted_score == current_score * interpret_feedback(user_feedback)
        promote == adjusted_score > o.best_score
        o1 == [best_settings |-> IF promote THEN current_settings
                                 ELSE o.best_settings,
               best_score |-> IF promote THEN adjusted_score
                              ELSE o.best_score,
               queue |-> e.queue, visited |-> e.visited]
        n == get_next_settings(o1)
    IN [o |-> [o1 EXCEPT !.queue = n.queue], ret |-> n.ret, log |-> e.log,
        adjusted |-> adjusted_score]

\* Settings stored as they come.
set_adaptive_settings_unclamped(sensitivity, smoothing, acceleration) ==
    [sensitivity |-> sensitivity, smoothing |-> smoothing,
     acceleration |-> acceleration, smoothing_factor |-> smoothing]

\* A setter that leaves the acceleration as it was.
set_adaptive_settings_no_accel(sensitivity, smoothing, acceleration) ==
    [sensitivity |-> Max(300, Min(2000, sensitivity)),
     smoothing |-> Max(100, Min(800, smoothing)),
     acceleration |-> adaptive.acceleration,
     smoothing_factor |-> Max(100, Min(800, smoothing))]

set_adaptive_settings(sensitivity, smoothing, acceleration) ==
    [sensitivity |-> Max(300, Min(2000, sensitivity)),
     smoothing |-> Max(100, Min(800, smoothing)),
     acceleration |-> Max(1000, Min(3000, acceleration)),
     smoothing_factor |-> Max(100, Min(800, smoothing))]

\* The settings a caller may ask for, in range and out of it.
SettingRequests ==
    {[sensitivity |-> -5000, smoothing |-> 50, acceleration |-> 500],
     [sensitivity |-> 300, smoothing |-> 100, acceleration |-> 1000],
     [sensitivity |-> 1100, smoothing |-> 350, acceleration |-> 1600],
     [sensitivity |-> 2000, smoothing |-> 800, acceleration |-> 3000],
     [sensitivity |-> 99000, smoothing |-> 900, acceleration |-> 3500]}

\* set_adaptive_settings called on its own.
SetAdaptiveSettings ==
    \E q \in SettingRequests :
        /\ adaptive' = set_adaptive_settings(q.sensitivity, q.smoothing,
                                             q.acceleration)
        /\ set_in' = q
        /\ req' = "set_adaptive_settings"
        /\ UNCHANGED <<now, dispVars, sinkVars, fired, sink_errors, uncaught, prev_hold, ep_start,
                       ep_last_active, ep_downs, seen_left, seen_right,
                       seen_double, loopVars, scriptVars, threadVars,
                       best_settings, best_score, search_queue,
                       visited_settings, calls, returned, adjusted, enq_log,
                       callVars, probeVars, motionVars, motionGhost,
                       smoothing_var>>

\* avg_accuracy * (50 / max(avg_time, 1)), avg_time in tenths of a second.
performance_score(avg_accuracy, avg_time) ==
    (avg_accuracy * 500) \div Max(avg_time, 10)

Accuracies == {20, 50, 80}
Times == {500, 1000}

\* TrainingGame.apply_feedback with a feedback label selected.
ApplyFeedback ==
    \E avg_accuracy \in Accuracies, avg_time \in Times, feedback \in Feedback :
        /\ calls < MaxCalls
        /\ \E r \in {bfs_optimize(Optimizer,
                                  performance_score(avg_accuracy, avg_time),
                                  feedback)} :
              /\ best_settings' = r.o.best_settings
              /\ best_score' = r.o.best_score
              /\ search_queue' = r.o.queue
              /\ visited_settings' = r.o.visited
              /\ adaptive' = set_adaptive_settings(r.ret.sensitivity,
                                                   r.ret.smoothing,
                                                   r.ret.acceleration)
              /\ returned' = r.ret
              /\ adjusted' = r.adjusted
              /\ enq_log' = enq_log \o r.log
        /\ calls' = calls + 1
        /\ nb_in' = best_settings
        /\ nb_out' = generate_neighbors(best_settings)
        /\ req' = "apply_feedback"
        /\ UNCHANGED <<now, dispVars, sinkVars, fired, sink_errors, uncaught,
                       prev_hold, ep_start, ep_last_active, ep_downs,
                       seen_left, seen_right, seen_double, loopVars,
                       scriptVars, threadVars, extraVars, score_in,
                       feedback_in, weight>>

\* TrainingGame.apply_feedback with no label selected: it returns at once.
ApplyFeedbackUnselected ==
    /\ req' = "apply_feedback_unselected"
    /\ UNCHANGED <<now, dispVars, sinkVars, fired, sink_errors, uncaught,
                   prev_hold, ep_start, ep_last_active, ep_downs, seen_left,
                   seen_right, seen_double, otherVars>>

\* The calls of bfs_optimize made directly on one optimizer.
MaxDirectCalls == 3

\* bfs_optimize called directly, with a label of the table or another.
BfsOptimize ==
    \E current_score \in {performance_score(a, t) :
                              a \in Accuracies, t \in Times},
       feedback \in Feedback \cup {"", "neutral"} :
        /\ calls < MaxDirectCalls
        /\ \E r \in {bfs_optimize(Optimizer, current_score, feedback)} :
              /\ best_settings' = r.o.best_settings
              /\ best_score' = r.o.best_score
              /\ search_queue' = r.o.queue
              /\ visited_settings' = r.o.visited
              /\ returned' = r.ret
              /\ adjusted' = r.adjusted
              /\ enq_log' = enq_log \o r.log
        /\ calls' = calls + 1
        /\ score_in' = current_score
        /\ feedback_in' = feedback
        /\ weight' = interpret_feedback(feedback)
        /\ nb_in' = best_settings
        /\ nb_out' = generate_neighbors(best_settings)
        /\ UNCHANGED <<now, dispVars, sinkVars, ghostVars, loopVars,
                       scriptVars, threadVars, adaptive, extraVars>>

\* generate_neighbors called on its own, on a new optimizer, with
\* settings at, next to and within a step of each bound, and in the middle.
GenerateNeighbors ==
    \E settings \in
           [sensitivity : {300, 400, 1000, 1900, 1950, 2000},
            smoothing : {100, 150, 300, 750, 780, 800},
            acceleration : {1000, 1100, 1500, 2900, 2950, 3000}] :
        /\ calls = 0
        /\ nb_out = <<>>
        /\ nb_in' = settings
        /\ nb_out' = generate_neighbors(settings)
        /\ UNCHANGED <<now, dispVars, sinkVars, ghostVars, loopVars,
                       scriptVars, threadVars, extraVars, best_settings,
                       best_score, search_queue, visited_settings, adaptive,
                       calls, returned, adjusted, enq_log, score_in,
                       feedback_in, weight>>

\* The optimizer as constructed (AdaptiveSettingsOptimizer.__init__).
InitOptimizer ==
    /\ best_settings = InitialSettings
    /\ best_score = 0
    /\ search_queue = <<>>
    /\ visited_settings = {}
    /\ calls = 0
    /\ returned = InitialSettings
    /\ adjusted = 0
    /\ enq_log = <<>>
    /\ score_in = 0
    /\ feedback_in = ""
    /\ weight = 0
    /\ nb_in = InitialSettings
    /\ nb_out = <<>>

\* TrainingGame.reset_game: a new optimizer; the controller keeps the
\* settings it was last given.
ResetGame ==
    /\ calls > 0
    /\ best_settings' = InitialSettings
    /\ best_score' = 0
    /\ search_queue' = <<>>
    /\ visited_settings' = {}
    /\ calls' = 0
    /\ returned' = InitialSettings
    /\ adjusted' = 0
    /\ enq_log' = <<>>
    /\ score_in' = 0
    /\ feedback_in' = ""
    /\ weight' = 0
    /\ nb_in' = InitialSettings
    /\ nb_out' = <<>>
    /\ UNCHANGED <<now, dispVars, sinkVars, ghostVars, loopVars, scriptVars,
                   threadVars, adaptive, extraVars>>

\* The controller's adaptive settings as constructed.
InitAdaptive ==
    adaptive = [sensitivity |-> 1000, smoothing |-> 200,
                acceleration |-> 1200, smoothing_factor |-> 200]

\* The motion fields and the settings as constructed; the slider at its
\* default.
InitMotion ==
    /\ prev_pos = <<0, 0>>
    /\ velocity = <<0, 0>>
    /\ position_history = <<>>
    /\ cursor_enabled = TRUE
    /\ inverse_cursor = FALSE
    /\ out = <<0, 0>>
    /\ moves = 0
    /\ set_in = [sensitivity |-> 1000, smoothing |-> 200,
                 acceleration |-> 1200]
    /\ smoothing_var = 600

(***************************************************************************)
(* The controller as constructed (CursorController.__init__), at the       *)
(* moment the clock reads StartTime.                                       *)
(***************************************************************************)
InitController ==
    /\ now = StartTime
    /\ is_holding = FALSE
    /\ hold_start_time = 0
    /\ last_click_time = 0
    /\ last_scroll_time = 0
    /\ button_down = FALSE
    /\ fired = <<>>
    /\ sink_errors = <<>>
    /\ uncaught = FALSE
    /\ req = "none"
    /\ prev_hold = "Idle"
    /\ ep_start = 0 /\ ep_last_active = 0 /\ ep_downs = 0
    /\ seen_left = 0 /\ seen_right = 0 /\ seen_double = 0

\* The tracker as constructed (HandTracker.__init__).
InitTracker ==
    /\ cursor_finger = "index"
    /\ pinch_history = <<>>
    /\ gesture = "none"
    /\ mapped = FALSE
    /\ fault = "none"
    /\ absent = 0
    /\ read_fails = 0

NoScript ==
    /\ phase = -1
    /\ point_thumb = "in"
    /\ labels = <<>>
    /\ sent = [k \in SinkKinds |-> 0]

\* The GUI as constructed (GUIController.__init__): not tracking, no worker.
InitThreads ==
    /\ is_running = FALSE
    /\ start_enabled = TRUE
    /\ gui_pc = "idle"
    /\ stops = 0
    /\ wpc = [w \in Workers |-> "unborn"]
    /\ wbranch = [w \in Workers |-> "none"]

Init ==
    /\ InitController
    /\ InitTracker
    /\ NoScript
    /\ InitThreads
    /\ InitOptimizer
    /\ InitAdaptive
    /\ InitProbe
    /\ InitMotion
    /\ sink_faulty = FALSE
    /\ raises_allowed = FALSE

Next ==
    \/ HandlePinch
    \/ ClickRequest
    \/ ScrollRequest
    \/ ResetState

\* The dispatcher driven by one caller, with a sink that never fails.
Spec == Init /\ [][Next]_vars

NextLoop ==
    \/ ProcessFrame
    \/ FrameReadFails
    \/ MoveSmoothingSlider

\* One processing loop on its own, with a sink that never fails.
SpecLoop == Init /\ [][NextLoop]_vars

NextThreaded ==
    \/ StartTracking
    \/ StopTracking
    \/ ResetRelease
    \/ ResetClear
    \/ WorkerStep

\* The GUI thread and the worker threads it starts, interleaved.
SpecThreads == Init /\ [][NextThreaded]_vars

NextRunning ==
    \/ StartTracking
    \/ StopTracking
    \/ ResetRelease
    \/ ResetClear
    \/ \E w \in Workers : WorkerRun(w)

\* The same threads with a scheduler that lets every started worker run:
\* a worker thread whose next step stays possible takes it.  The GUI
\* thread acts when the user does and is under no such condition.
SpecExit ==
    /\ Init
    /\ [][NextRunning]_vars
    /\ \A w \in Workers : WF_vars(WorkerRun(w))

InitScript ==
    /\ InitController
    /\ InitTracker
    /\ phase = 0
    /\ point_thumb \in {"in", "out"}
    /\ labels = <<>>
    /\ sent = [k \in SinkKinds |-> 0]
    /\ InitThreads
    /\ InitOptimizer
    /\ InitAdaptive
    /\ InitProbe
    /\ InitMotion
    /\ sink_faulty = FALSE
    /\ raises_allowed = FALSE

NextScript == ScriptFrame

\* One processing loop fed the scripted frame sequence.
SpecScript == InitScript /\ [][NextScript]_vars

NextOpt ==
    \/ ApplyFeedback
    \/ ResetGame
    \/ GenerateNeighbors

\* The training game's feedback handler and its optimizer.
SpecOpt == Init /\ [][NextOpt]_vars

NextFeedback ==
    \/ BfsOptimize
    \/ ResetGame

\* The optimizer called directly, with any label.
SpecFeedback == Init /\ [][NextFeedback]_vars

NextSubmit ==
    \/ ApplyFeedback
    \/ ApplyFeedbackUnselected
    \/ ResetGame

\* The feedback handler, with a label selected or none.
SpecSubmit == Init /\ [][NextSubmit]_vars

NextTracking ==
    \/ DetectGestures
    \/ DetectPinch
    \/ ResetTrackingState

\* The tracker's classifier fed frames one call at a time.
SpecTracker == Init /\ [][NextTracking]_vars

NextMoving ==
    \/ MapCoordinates
    \/ SetCursorInversion
    \/ SetAdaptiveSettings

\* The controller's mapper and its settings, driven by one caller.
SpecMotion == Init /\ [][NextMoving]_vars

NextResetting ==
    \/ MapCoordinates
    \/ HandlePinch
    \/ ResetState

\* The controller's mapper, pinch dispatcher and reset_state, driven by
\* one caller.
SpecReset == Init /\ [][NextResetting]_vars

NextToggling ==
    \/ MapCoordinates
    \/ ToggleCursorMovement
    \/ MoveCursor
    \/ ResetState

\* The controller's mapper and mover with the movement toggle, driven by
\* one caller.
SpecToggle == Init /\ [][NextToggling]_vars

InitFaulty ==
    /\ InitController
    /\ InitTracker
    /\ NoScript
    /\ InitThreads
    /\ InitOptimizer
    /\ InitAdaptive
    /\ InitProbe
    /\ InitMotion
    /\ sink_faulty = TRUE
    /\ raises_allowed = FALSE

NextFaulty ==
    \/ HandlePinch
    \/ ResetState

\* The pinch dispatcher and reset_state on a sink whose calls may raise.
SpecFaulty == InitFaulty /\ [][NextFaulty]_vars

NextSinkFails ==
    \/ ClickRequest
    \/ ScrollRequest
    \/ KeyRequest
    \/ MoveCursor

\* The controller's fire-and-forget requests on a sink whose calls may
\* raise.
SpecSinkFails == InitFaulty /\ [][NextSinkFails]_vars

(***************************************************************************)
(* Claims about the dispatcher.  A release is the state right after        *)
(* handle_pinch_gesture(False) found the dispatcher not Idle; now is then  *)
(* the time of the inactive observation.                                   *)
(***************************************************************************)
Released == req = "pinch_off" /\ prev_hold # "Idle"

LastClick == Max(seen_left, Max(seen_right, seen_double))

\* C3: a pinch seen inactive less than hold_threshold after its first active
\* observation, with more than click_cooldown elapsed since the last click
\* (of whichever kind), gives exactly one click and no mouseDown or mouseUp.
C3_QuickPinchGivesOneClick ==
    [][(/\ req' = "pinch_off"
        /\ HoldState(is_holding, hold_start_time) # "Idle"
        /\ now' - ep_start < hold_threshold
        /\ now' - LastClick > click_cooldown)
       => (fired' = <<"click">> /\ ep_downs' = 0 /\ ~button_down')]_vars

C3_Witness ==
    /\ Released
    /\ now - ep_start < hold_threshold
    /\ fired = <<"click">>
    /\ ep_downs = 0
    /\ last_click_time = now

\* C4: a click request of one kind is dropped only if a click of that same
\* kind fired within the last click_cooldown.
C4_IndependentClickGates ==
    /\ (req = "click" /\ fired = <<>>) => now - seen_left <= click_cooldown
    /\ (req = "right_click" /\ fired = <<>>)
           => now - seen_right <= click_cooldown
    /\ (req = "double_click" /\ fired = <<>>)
           => now - seen_double <= click_cooldown

(***************************************************************************)
(* Claims about the classifier and the orchestrator.                       *)
(***************************************************************************)
\* C5: over the scripted poses no hand, index point, pinch, the same index
\* point, the labels with repeats collapsed are no_hand, point, pinch,
\* point: never anything else on the way, and exactly that at the end.
C5_ScriptLabels ==
    LET want == <<"no_hand", "point", "pinch", "point">>
    IN /\ Len(labels) <= Len(want)
       /\ labels = SubSeq(want, 1, Len(labels))
       /\ ScriptOver => labels = want

\* C6: over the scripted poses the orchestrator dispatches at most one
\* click or one mouseDown/mouseUp pair in all, a click only for a pinch
\* released before hold_threshold and a pair only for one seen active after
\* it, and no right-click or scroll.
C6_ScriptDispatch ==
    /\ sent["click"] + sent["mouseDown"] <= 1
    /\ sent["mouseUp"] <= sent["mouseDown"]
    /\ sent["rightClick"] = 0
    /\ sent["scroll"] = 0
    /\ sent["doubleClick"] = 0
    /\ Count(fired, "click") > 0 => now - ep_start < hold_threshold
    /\ sent["mouseDown"] > 0 => ep_last_active - ep_start >= hold_threshold

\* C7: an iteration that meets a recoverable condition (fewer than 21
\* landmarks, or an exception while tracking) issues no click and no pointer
\* move, and leaves the button up.
C7_FaultIsNeutral ==
    fault # "none" =>
        /\ Count(fired, "click") = 0
        /\ ~mapped
        /\ ~button_down

(***************************************************************************)
(* Claims about the threads.                                               *)
(***************************************************************************)
Born == Workers \ Unborn

\* C1: with one worker thread, once stop_tracking has returned and the
\* worker's loop has exited, the dispatcher is not holding and the pointer
\* button is up.
C1_StopLeavesButtonUp ==
    (/\ Cardinality(Born) = 1
     /\ \A w \in Born : wpc[w] = "exited"
     /\ gui_pc = "idle"
     /\ stops >= 1)
        => (~is_holding /\ ~button_down)

\* C8: at no time are two worker threads inside the body of their
\* while-is_running loop.
C8_OneLoopAtATime == Cardinality(InLoop) <= 1

(***************************************************************************)
(* Claims about the optimizer.                                             *)
(***************************************************************************)
\* C9: on an optimization request, if the adjusted score is greater than
\* best_score, then best_score becomes the adjusted score and the best
\* settings become the settings the score was measured under, which is the
\* candidate the previous request returned (the initial settings on the
\* first request); otherwise both are unchanged.
C9_PromotionRecordsMeasuredSettings ==
    [][calls' = calls + 1 =>
          IF adjusted' > best_score
          THEN best_score' = adjusted' /\ best_settings' = returned
          ELSE best_score' = best_score /\ best_settings' = best_settings]_vars

NoDuplicates(seq) ==
    \A i \in 1..Len(seq), j \in 1..Len(seq) : seq[i] = seq[j] => i = j

QueueKeys == [i \in 1..Len(search_queue) |->
                 settings_to_key(search_queue[i].settings)]

\* C10: every settings key has been appended to the frontier at most once,
\* the frontier holds no two entries with the same key, every key appended
\* is in the visited set, and a call of bfs_optimize only adds to the
\* visited set, appending exactly the keys it adds.
C10_EachKeyEnqueuedOnce ==
    /\ [](/\ NoDuplicates(enq_log)
          /\ NoDuplicates(QueueKeys)
          /\ \A i \in 1..Len(enq_log) : enq_log[i] \in visited_settings)
    /\ [][calls' = calls + 1 =>
            /\ visited_settings \subseteq visited_settings'
            /\ \A i \in 1..Len(enq_log') :
                   i > Len(enq_log) <=>
                       enq_log'[i] \in visited_settings' \ visited_settings]_vars

C10_Witness ==
    /\ calls >= 2
    /\ Len(enq_log) = 6
    /\ Cardinality(visited_settings) = 6
    /\ Len(search_queue) = 4
    /\ NoDuplicates(QueueKeys)

\* C11: the k-th call of bfs_optimize returns the k-th candidate ever
\* appended to the frontier and removes it, leaving the later candidates in
\* their order; a call that finds the frontier empty after appending
\* returns the best settings.
C11_FrontierIsFifo ==
    calls >= 1 =>
        IF calls <= Len(enq_log)
        THEN /\ settings_to_key(returned) = enq_log[calls]
             /\ QueueKeys = SubSeq(enq_log, calls + 1, Len(enq_log))
        ELSE /\ returned = best_settings
             /\ search_queue = <<>>

C11_Witness ==
    /\ calls = 3
    /\ Len(enq_log) = 6
    /\ settings_to_key(returned) = enq_log[3]
    /\ Len(search_queue) = 3

(***************************************************************************)
(* Claims about the classifier called on its own.                          *)
(***************************************************************************)
TrackerCalled == req \in {"detect_gestures", "detect_pinch_gesture"}

\* The last pinch_stability_count raw booleans pushed.
LastRaws ==
    SubSeq(raw_log, Len(raw_log) - pinch_stability_count + 1, Len(raw_log))

\* C12: on a frame of 21 landmarks, once pinch_stability_count raw booleans
\* have been pushed, detect_pinch_gesture reports pinch exactly when at
\* least pinch_stability_count - 1 of the last pinch_stability_count are
\* true: it does for true, true, false and does not for false, false, true.
C12_PinchDebounce ==
    (/\ TrackerCalled
     /\ NumLandmarks(last_lm) >= 21
     /\ Len(raw_log) >= pinch_stability_count)
        => /\ pinch_reported <=> Trues(LastRaws) >= pinch_stability_count - 1
           /\ LastRaws = <<TRUE, TRUE, FALSE>> => pinch_reported
           /\ LastRaws = <<FALSE, FALSE, TRUE>> => ~pinch_reported

C12_Witness ==
    /\ req = "detect_pinch_gesture"
    /\ NumLandmarks(last_lm) >= 21
    /\ Len(raw_log) > pinch_stability_count
    /\ LastRaws = <<TRUE, TRUE, FALSE>>
    /\ pinch_reported

\* The label the precedence pinch, point, peace, fist, open_hand, other
\* gives to the five finger-extended booleans up, the stable-pinch boolean
\* and the cursor finger mode.
FirstMatch(up, pinch, mode) ==
    LET active == IF mode = "index" THEN 1 ELSE 4
        total == Cardinality({i \in 0..4 : up[i]})
    IN IF pinch THEN "pinch"
       ELSE IF up[active] /\ \A i \in 1..4 \ {active} : ~up[i] THEN "point"
       ELSE IF up[1] /\ up[2] /\ ~up[3] /\ ~up[4] THEN "peace"
       ELSE IF total <= 1 THEN "fist"
       ELSE IF total >= 4 THEN "open_hand"
       ELSE "other"

\* C13: on a frame of 21 landmarks detect_gestures returns the first
\* matching label, in the order pinch, point, peace, fist, open_hand, other,
\* for the frame's finger-extended booleans, the stable-pinch boolean and
\* the cursor finger mode the call began with.
C13_FirstMatchWins ==
    (req = "detect_gestures" /\ NumLandmarks(last_lm) >= 21)
        => gesture = FirstMatch([i \in 0..4 |-> is_finger_up(last_lm, i)],
                                pinch_reported, finger_before)

C13_Witness ==
    /\ req = "detect_gestures"
    /\ NumLandmarks(last_lm) >= 21
    /\ finger_before = "pinky"
    /\ ~pinch_reported
    /\ is_finger_up(last_lm, 1) /\ ~is_finger_up(last_lm, 4)
    /\ ~is_finger_up(last_lm, 2) /\ ~is_finger_up(last_lm, 3)
    /\ gesture \in {"fist", "other"}

\* C14: cursor_finger is always index or pinky; right after a frame that
\* detect_gestures labels pinch it is pinky, right after one it labels
\* point it is index, and a frame with any other label leaves it as it was.
C14_FingerFollowsLabel ==
    /\ cursor_finger \in {"index", "pinky"}
    /\ req = "detect_gestures" =>
          /\ gesture = "pinch" => cursor_finger = "pinky"
          /\ gesture = "point" => cursor_finger = "index"
          /\ gesture \notin {"pinch", "point"} => cursor_finger = finger_before

C14_Witness ==
    /\ req = "detect_gestures"
    /\ gesture = "pinch"
    /\ finger_before = "index"
    /\ cursor_finger = "pinky"

(***************************************************************************)
(* Claims about the mapper, the settings and reset_state.                  *)
(***************************************************************************)
MotionFields == <<prev_pos, velocity, position_history>>

\* C15: detect_gestures returns no_hand for a frame of fewer than 21
\* landmarks and leaves the tracker as it was, and an iteration of the loop
\* on such a frame calls neither map_coordinates nor move_cursor: the
\* previous position, the velocity and the position history are unchanged.
C15_NoHandLeavesMotion ==
    /\ [](\A lm \in {NoHand, Partial} :
             detect_gestures(Tracker, lm) =
                 [tr |-> Tracker, label |-> "no_hand"])
    /\ [][(req' = "frame" /\ fault' = "no_hand")
            => /\ gesture' = "no_hand"
               /\ ~mapped'
               /\ UNCHANGED <<MotionFields, out>>]_vars

C15_Witness ==
    /\ req = "frame"
    /\ fault = "no_hand"
    /\ gesture = "no_hand"
    /\ ~mapped
    /\ prev_pos # <<0, 0>>
    /\ position_history # <<>>

\* C16: every coordinate map_coordinates returns while cursor movement is
\* enabled lies on the screen: x in 0..screen_width-1, y in
\* 0..screen_height-1.
C16_OutputOnScreen ==
    (req = "map_coordinates" /\ cursor_enabled)
        => /\ out[1] \in 0..(screen_width - 1)
           /\ out[2] \in 0..(screen_height - 1)

\* C17: after set_adaptive_settings the three settings are within their
\* ranges, an argument within its range is stored as it is, and one outside
\* it is stored as the nearest end of the range.
C17_SettingsClamped ==
    /\ adaptive.sensitivity \in 300..2000
    /\ adaptive.smoothing \in 100..800
    /\ adaptive.acceleration \in 1000..3000
    /\ req = "set_adaptive_settings" =>
          /\ set_in.sensitivity \in 300..2000
                 => adaptive.sensitivity = set_in.sensitivity
          /\ set_in.sensitivity < 300 => adaptive.sensitivity = 300
          /\ set_in.sensitivity > 2000 => adaptive.sensitivity = 2000
          /\ set_in.smoothing \in 100..800
                 => adaptive.smoothing = set_in.smoothing
          /\ set_in.smoothing < 100 => adaptive.smoothing = 100
          /\ set_in.smoothing > 800 => adaptive.smoothing = 800
          /\ set_in.acceleration \in 1000..3000
                 => adaptive.acceleration = set_in.acceleration
          /\ set_in.acceleration < 1000 => adaptive.acceleration = 1000
          /\ set_in.acceleration > 3000 => adaptive.acceleration = 3000

C17_Witness ==
    /\ req = "set_adaptive_settings"
    /\ set_in.sensitivity = 99000
    /\ adaptive.sensitivity = 2000
    /\ adaptive.smoothing = 800
    /\ adaptive.acceleration = 3000

\* C18: in every reachable state of the running loop, with the user moving
\* the smoothing slider, the controller's smoothing_factor is within 0.1
\* to 0.8.
C18_SmoothingInRange == adaptive.smoothing_factor \in 100..800

\* C19: after reset_state the dispatcher is not holding, hold_start_time is
\* 0, the position history is empty and velocity and previous position are
\* zero; it issues mouseUp exactly when the dispatcher was Holding; and a
\* second reset_state right after it changes nothing and issues nothing.
C19_ResetIdempotent ==
    /\ [](req = "reset" =>
            /\ ~is_holding
            /\ hold_start_time = 0
            /\ position_history = <<>>
            /\ velocity = <<0, 0>>
            /\ prev_pos = <<0, 0>>
            /\ ~button_down
            /\ fired = (IF prev_hold = "Holding" THEN <<"mouseUp">> ELSE <<>>))
    /\ [][(req = "reset" /\ req' = "reset")
            => /\ fired' = <<>>
               /\ UNCHANGED <<dispVars, sinkVars, motionVars>>]_vars

C19_Witness ==
    /\ req = "reset"
    /\ prev_hold = "Holding"
    /\ fired = <<"mouseUp">>
    /\ out # <<0, 0>>
    /\ prev_pos = <<0, 0>>
    /\ ~is_holding

\* C20: a click, right_click or double_click request within 0.15 s of the
\* last action of its kind, and a scroll request within 0.1 s of the last
\* scroll, issues no sink call and leaves the dispatcher's timestamps and
\* hold state unchanged; a scroll request outside that window fires
\* whatever the clicks did, and no scroll changes last_click_time and no
\* click changes last_scroll_time.
C20_DroppedRequestsChangeNothing ==
    [][/\ (\/ req' = "click" /\ now' - seen_left <= click_cooldown
           \/ req' = "right_click" /\ now' - seen_right <= click_cooldown
           \/ req' = "double_click" /\ now' - seen_double <= click_cooldown
           \/ req' = "scroll" /\ now' - last_scroll_time <= scroll_cooldown)
          => (fired' = <<>> /\ UNCHANGED dispVars)
       /\ (req' = "scroll" /\ now' - last_scroll_time > scroll_cooldown)
          => (fired' = <<"scroll">> /\ last_scroll_time' = now')
       /\ req' = "scroll"
          => UNCHANGED <<last_click_time, is_holding, hold_start_time>>
       /\ req' \in ClickKinds => UNCHANGED last_scroll_time]_vars

C20_Witness ==
    /\ req = "scroll"
    /\ fired = <<"scroll">>
    /\ last_click_time > 0
    /\ now - last_click_time < scroll_cooldown
    /\ last_scroll_time = now

(***************************************************************************)
(* Claims about the dispatcher's release of a pending hold.                *)
(***************************************************************************)
\* C21: when handle_pinch_gesture(False) finds the dispatcher in PendingHold
\* less than hold_threshold after hold_start_time, it issues one click
\* exactly when more than click_cooldown has passed since last_click_time
\* and nothing otherwise; either way the dispatcher is Idle afterwards
\* (hold_start_time 0, not holding), and the next active pinch issues
\* nothing and starts a PendingHold whose hold_start_time is the time of
\* that call.
C21_PendingReleaseClicksOnce ==
    /\ [][(/\ req' = "pinch_off"
           /\ HoldState(is_holding, hold_start_time) = "PendingHold"
           /\ now' - hold_start_time < hold_threshold)
          => /\ fired' = (IF now' - last_click_time > click_cooldown
                          THEN <<"click">> ELSE <<>>)
             /\ last_click_time' = (IF now' - last_click_time > click_cooldown
                                    THEN now' ELSE last_click_time)
             /\ hold_start_time' = 0
             /\ ~is_holding'
             /\ ~button_down']_vars
    /\ [][(/\ req' = "pinch_on"
           /\ HoldState(is_holding, hold_start_time) = "Idle")
          => /\ fired' = <<>>
             /\ hold_start_time' = now'
             /\ ~is_holding']_vars

C21_Witness ==
    /\ req = "pinch_off"
    /\ prev_hold = "PendingHold"
    /\ now - ep_start < hold_threshold
    /\ now - last_click_time <= click_cooldown
    /\ last_click_time > 0
    /\ fired = <<>>
    /\ hold_start_time = 0
    /\ ~is_holding

(***************************************************************************)
(* Claims about the loop's handling of an absent hand and of failed reads. *)
(***************************************************************************)
\* C22: once GraceFrames consecutive frames have shown no hand, the motion
\* state is as reset_state leaves it: the position history is empty and the
\* previous position and the velocity are zero.
C22_AbsenceResetsMotion ==
    absent >= GraceFrames
        => /\ position_history = <<>>
           /\ prev_pos = <<0, 0>>
           /\ velocity = <<0, 0>>

(***************************************************************************)
(* Claims about the mapper's velocity blend and its toggle.                *)
(***************************************************************************)
\* Do a and b differ by at most one hundredth of a pixel.
Near(a, b) == a - b \in -1..1

\* C23: on a call of map_coordinates that is not the first after a reset,
\* the velocity kept is v_prev x smoothing + raw_delta x (1 - smoothing),
\* smoothing being the controller's current smoothing setting and raw_delta
\* the filtered target minus the previous position, multiplied by the
\* acceleration when the movement is fast.
C23_BlendUsesSmoothing ==
    [][(/\ req' = "map_coordinates"
        /\ moves' = moves + 1
        /\ cursor_enabled
        /\ prev_pos # <<0, 0>>)
       => \A i \in 1..2 :
            LET raw_delta == Filtered(position_history', i) - prev_pos[i]
                blend == (velocity[i] * adaptive.smoothing
                            + raw_delta * (1000 - adaptive.smoothing))
                         \div 1000
            IN \/ Near(velocity'[i], blend)
               \/ Near(velocity'[i],
                       (blend * (adaptive.acceleration \div 10)) \div 100)]_vars

\* C24: while cursor movement is disabled, map_coordinates leaves the
\* previous position, the velocity and the position history as they were
\* and returns the previous position, which is the coordinate it last
\* returned since the motion state was last cleared; and move_cursor issues
\* no moveTo.
C24_DisabledIsNoOp ==
    /\ [][(/\ req' = "map_coordinates"
           /\ moves' = moves + 1
           /\ ~cursor_enabled)
          => /\ UNCHANGED <<prev_pos, velocity, position_history>>
             /\ out' = <<ToInt(prev_pos[1]), ToInt(prev_pos[2])>>
             /\ position_history # <<>> => out' = out]_vars
    /\ [][(req' = "move_cursor" /\ ~cursor_enabled)
          => (fired' = <<>> /\ UNCHANGED motionVars)]_vars

C24_Witness ==
    /\ req = "map_coordinates"
    /\ ~cursor_enabled
    /\ moves >= 2
    /\ position_history # <<>>
    /\ out = <<960, 540>>

\* What the classifier, the mapper and the dispatcher keep, the button and
\* the settings the loop copies.
LoopState ==
    <<dispVars, sinkVars, trackVars, motionVars, adaptive, out, fired,
      gesture, mapped, fault, absent>>

\* C25: an iteration whose frame read fails changes nothing but the clock:
\* the classifier's, the mapper's and the dispatcher's fields, the button
\* and the settings are as before and no sink call is made; this is so for
\* every failed read of a run of consecutive ones, and after each, while
\* there is time left, the loop can poll again and can process a frame.
C25_FailedReadIsSkipped ==
    /\ [][read_fails' = read_fails + 1
            => (req' = "read_failed" /\ UNCHANGED LoopState)]_vars
    /\ []((read_fails > 0 /\ now + Tick <= LoopEnd)
            => (ENABLED FrameReadFails /\ ENABLED ProcessFrame))

C25_Witness ==
    /\ req = "read_failed"
    /\ read_fails >= 3
    /\ hold_start_time # 0
    /\ ~is_holding
    /\ position_history # <<>>

(***************************************************************************)
(* Claims about the optimizer's neighbours and feedback weights.           *)
(***************************************************************************)
Params == <<"sensitivity", "smoothing", "acceleration">>

\* The steps and the bounds of the dimensions, in thousandths.
StepOf == [sensitivity |-> 100, smoothing |-> 50, acceleration |-> 100]
LowOf == [sensitivity |-> 300, smoothing |-> 100, acceleration |-> 1000]
HighOf == [sensitivity |-> 2000, smoothing |-> 800, acceleration |-> 3000]

InBounds(settings) ==
    \A k \in 1..3 : settings[Params[k]] \in LowOf[Params[k]]..HighOf[Params[k]]

\* C26: generate_neighbors returns six candidates, two for each dimension:
\* each equals the input in the other two dimensions, and in its own is the
\* input plus (the first) or minus (the second) the dimension's step, or
\* the dimension's bound where the step would pass it; and every settings
\* point in the frontier or returned by bfs_optimize is within the bounds.
C26_NeighborsStepOrClamp ==
    /\ nb_out # <<>> =>
          /\ Len(nb_out) = 6
          /\ \A k \in 1..3 : \A d \in 0..1 :
                LET p == Params[k]
                    n == nb_out[2 * k - 1 + d]
                    stepped == IF d = 0 THEN nb_in[p] + StepOf[p]
                               ELSE nb_in[p] - StepOf[p]
                IN /\ \A j \in 1..3 : j # k => n[Params[j]] = nb_in[Params[j]]
                   /\ n[p] = (IF stepped > HighOf[p] THEN HighOf[p]
                              ELSE IF stepped < LowOf[p] THEN LowOf[p]
                              ELSE stepped)
                   /\ InBounds(n)
    /\ \A i \in 1..Len(search_queue) : InBounds(search_queue[i].settings)
    /\ InBounds(returned)

C26_Witness ==
    /\ calls = 0
    /\ nb_in = [sensitivity |-> 1950, smoothing |-> 100, acceleration |-> 3000]
    /\ Len(nb_out) = 6
    /\ nb_out[1].sensitivity = 2000
    /\ nb_out[2].sensitivity = 1850
    /\ nb_out[4] = nb_in
    /\ nb_out[5] = nb_in

\* The weight of a label, in tenths: the table, and 1.0 for any other label.
WeightOf(label) ==
    IF label = "much_faster" THEN 15
    ELSE IF label = "faster" THEN 12
    ELSE IF label = "perfect" THEN 20
    ELSE IF label = "slower" THEN 8
    ELSE IF label = "much_slower" THEN 6
    ELSE IF label = "sharper" THEN 13
    ELSE IF label = "smoother" THEN 11
    ELSE 10

\* C27: a call of bfs_optimize weighs its label as the table says, and any
\* label outside the table as 1.0; the score it compares with best_score is
\* the score it was given times that weight, and best_score becomes that
\* product exactly when the product is greater.
C27_FeedbackWeights ==
    /\ [](calls >= 1 =>
            /\ weight = WeightOf(feedback_in)
            /\ adjusted = score_in * weight)
    /\ [][calls' = calls + 1 =>
            best_score' = (IF score_in' * WeightOf(feedback_in') > best_score
                           THEN score_in' * WeightOf(feedback_in')
                           ELSE best_score)]_vars

C27_Witness ==
    /\ calls = 2
    /\ feedback_in = "neutral"
    /\ weight = 10
    /\ score_in = 80
    /\ adjusted = 800
    /\ best_score = 800

(***************************************************************************)
(* Claims about the debounce window and what the loop passes on.           *)
(***************************************************************************)
\* C28: after any calls of detect_pinch_gesture, pinch_history holds at
\* most pinch_stability_count entries and is the most recent
\* min(n, pinch_stability_count) of the n raw booleans pushed, in the order
\* they came: a push into a full window drops its oldest entry and no other.
C28_WindowIsMostRecent ==
    /\ [](/\ Len(pinch_history) <= pinch_stability_count
          /\ pinch_history =
                 SubSeq(raw_log,
                        Max(1, Len(raw_log) - pinch_stability_count + 1),
                        Len(raw_log)))
    /\ [][(/\ Len(raw_log') = Len(raw_log) + 1
           /\ Len(pinch_history) = pinch_stability_count)
          => pinch_history' =
                 Append(Tail(pinch_history), raw_log'[Len(raw_log')])]_vars

C28_Witness ==
    /\ req = "detect_pinch_gesture"
    /\ raw_log = <<TRUE, FALSE, FALSE, TRUE>>
    /\ pinch_history = <<FALSE, FALSE, TRUE>>

\* C29: with a sink whose calls may fail, is_holding is true exactly when
\* the pointer button is down: a mouseDown or mouseUp that fails leaves
\* is_holding as it was, in handle_pinch_gesture and in reset_state.
C29_HoldingIffButtonDown == is_holding <=> button_down

\* C30: in an iteration whose frame detect_gestures labelled pinch, the
\* boolean passed to handle_pinch_gesture is true: the dispatcher has seen
\* the pinch active at the time of that iteration.
C30_PinchFrameIsActive ==
    (req = "frame" /\ gesture = "pinch") => ep_last_active = now

(***************************************************************************)
(* Claims about what one frame does to the window, to the mapper's first   *)
(* call, and to the optimizer's search.                                    *)
(***************************************************************************)
\* C31: an iteration of the loop on a frame of 21 landmarks pushes exactly
\* one raw pinch boolean into pinch_history, whatever label the frame is
\* given: the window after the iteration is the window before it with one
\* boolean appended and, when it was full, its oldest entry dropped.
C31_OnePushPerFrame ==
    [][(now' > now /\ req' = "frame" /\ fault' = "none")
       => \E raw \in BOOLEAN :
              pinch_history' = PushHistory(pinch_history, raw)]_vars

\* C32: map_coordinates takes its first-run branch (return the filtered
\* point and store it as the previous output, with no velocity blend, no
\* acceleration and no clamp) in the first enabled call after construction
\* or reset_state and in no later call before the next reset_state:
\* position_history is empty exactly until that first enabled call, so an
\* enabled call finds the previous output at its initial value exactly
\* when position_history is empty.
C32_FirstRunOnlyOnce ==
    [][(moves' = moves + 1 /\ cursor_enabled)
       => ((prev_pos = <<0, 0>>) <=> (position_history = <<>>))]_vars

\* The keys of the neighbours of the point bfs_optimize generates them from.
NeighbourKeys ==
    {settings_to_key(generate_neighbors(best_settings)[i]) : i \in 1..6}

\* The settings on the frontier's entries that were appended so far.
Candidates ==
    {generate_neighbors(best_settings)[i] : i \in 1..6}

\* C33: over any calls of bfs_optimize, with any score and label, the
\* visited set holds only keys of the six neighbours of the point the
\* neighbours are generated from, so at most six; no more than six entries
\* are ever appended to the frontier and every settings point returned is
\* one of these six candidates or the best settings; and a call that finds
\* the frontier exhausted (empty, with the neighbours visited) returns the
\* best settings.
C33_SearchStaysInNeighbourhood ==
    /\ [](/\ visited_settings \subseteq NeighbourKeys
          /\ Cardinality(visited_settings) <= 6
          /\ Len(enq_log) <= 6
          /\ returned \in Candidates \cup {best_settings})
    /\ [][(/\ calls' = calls + 1
           /\ search_queue = <<>>
           /\ visited_settings # {})
          => (/\ returned' = best_settings'
              /\ search_queue' = <<>>
              /\ visited_settings' = visited_settings)]_vars

C33_Witness ==
    /\ calls = MaxCalls
    /\ search_queue = <<>>
    /\ Cardinality(visited_settings) = 6
    /\ Len(enq_log) = 6
    /\ returned = best_settings
    /\ best_score > 0

(***************************************************************************)
(* Claims about a sink that raises, the feedback handler, the worker's     *)
(* exit and the window after a reset.                                      *)
(***************************************************************************)
\* The requests that have a cooldown.
Cooled == ClickKinds \cup {"scroll"}

\* C34: a sink call that raises inside click, right_click, double_click,
\* scroll, key_press, key_combination or move_cursor never leaves the call
\* as an exception; a click, right_click, double_click or scroll whose
\* sink call raised leaves last_click_time and last_scroll_time as they
\* were; and the next request of the same kind after such a failure makes
\* its sink call again.
C34_SinkFailuresAreSwallowed ==
    /\ [](~uncaught)
    /\ [][(now' > now /\ req' \in Cooled /\ sink_errors' # <<>>)
          => (/\ last_click_time' = last_click_time
              /\ last_scroll_time' = last_scroll_time
              /\ fired' = <<>>)]_vars
    /\ [][(/\ req \in Cooled
           /\ sink_errors # <<>>
           /\ now' > now
           /\ req' = req)
          => (fired' # <<>> \/ sink_errors' # <<>>)]_vars

C34_Witness ==
    /\ req = "right_click"
    /\ sink_errors = <<"rightClick">>
    /\ fired = <<>>
    /\ last_click_time > 0
    /\ now - last_click_time > click_cooldown
    /\ seen_left = last_click_time
    /\ ~uncaught

\* C35: a call of apply_feedback with a label selected leaves the
\* controller's adaptive sensitivity, smoothing and acceleration equal to
\* the settings its bfs_optimize call returned, and a call with no label
\* selected changes neither the optimizer's fields nor the controller's
\* settings.
C35_FeedbackReachesController ==
    /\ [][calls' = calls + 1
          => (/\ req' = "apply_feedback"
              /\ adaptive'.sensitivity = returned'.sensitivity
              /\ adaptive'.smoothing = returned'.smoothing
              /\ adaptive'.acceleration = returned'.acceleration)]_vars
    /\ [][(req' = "apply_feedback_unselected" /\ req' # req)
          => UNCHANGED <<best_settings, best_score, search_queue,
                         visited_settings, calls, adaptive>>]_vars

C35_Witness ==
    /\ req = "apply_feedback"
    /\ calls = 3
    /\ returned = generate_neighbors(InitialSettings)[3]
    /\ adaptive = [sensitivity |-> 1000, smoothing |-> 350,
                   acceleration |-> 1500, smoothing_factor |-> 350]

\* C36: once stop_tracking has set is_running false, a worker that was
\* started exits its while loop unless start_tracking sets is_running
\* again; a worker whose loop test finds is_running false goes to the exit
\* and not into the loop body, and a worker that has exited takes no
\* further step.
C36_WorkerExitsAfterStop ==
    /\ ~is_running
           ~> (is_running \/ \A w \in Workers : wpc[w] \in {"unborn", "exited"})
    /\ [][\A w \in Workers :
              /\ (wpc[w] = "loop" /\ wpc'[w] # "loop" /\ ~is_running)
                     => wpc'[w] = "exited"
              /\ wpc[w] = "exited" => wpc'[w] = "exited"]_vars

C36_Witness ==
    /\ ~is_running
    /\ gui_pc = "idle"
    /\ stops = 1
    /\ wpc[1] = "exited"
    /\ wpc[2] = "unborn"
    /\ last_click_time > 0

\* C37: after construction or reset_tracking_state no pinch is reported
\* (by detect_pinch_gesture, or as a label by detect_gestures) before
\* pinch_stability_count raw booleans have been pushed: a window of fewer
\* entries is not stable even when all of them are true; and a call on a
\* frame of fewer than 21 landmarks reports no pinch and leaves
\* pinch_history as it was, with no entry added and none evicted.
C37_NoPinchBeforeFullWindow ==
    /\ [](/\ Len(pinch_history) < pinch_stability_count
              => ~StablePinch(pinch_history)
          /\ (TrackerCalled /\ Len(raw_log) < pinch_stability_count)
              => /\ ~pinch_reported
                 /\ req = "detect_gestures" => gesture # "pinch")
    /\ [][(/\ req' \in {"detect_gestures", "detect_pinch_gesture"}
           /\ raw_log' = raw_log
           /\ NumLandmarks(last_lm') < 21)
          => (/\ pinch_history' = pinch_history
              /\ ~pinch_reported'
              /\ req' = "detect_gestures" => gesture' = "no_hand")]_vars

C37_Witness ==
    /\ req = "detect_pinch_gesture"
    /\ gesture = "pinch"
    /\ raw_log = <<TRUE, TRUE>>
    /\ pinch_history = <<TRUE, TRUE>>
    /\ NumLandmarks(last_lm) >= 21
    /\ ~pinch_reported

====
